---------------------------- MODULE Spec2Model ----------------------------
(***************************************************************************)
(* A model of the genovo pipeline (jbethune/kmerPaPa): the histogram       *)
(* DefaultCounter and its p-values, the Monte Carlo sampler, the expector, *)
(* the observed-mutation classifier and the comparator.                    *)
(*                                                                         *)
(* Each component is a state machine of its own over its own variables;    *)
(* the variables of the other components stay at their idle values.        *)
(***************************************************************************)
EXTENDS Integers, Sequences, FiniteSets, TLC

(***************************************************************************)
(* Bounds of the model.                                                    *)
(***************************************************************************)
\* highest index passed to DefaultCounter::inc
MaxIndex == 3
\* number of inc calls on one counter
MaxIncs == 3
\* length of a histogram read from a file
MaxFileLen == 3
\* highest entry of a histogram read from a file
MaxFileCount == 2
\* number of possible-mutation events given to the sampler, over all regions
MaxEvents == 2
\* highest number_of_samplings
MaxSamplings == 2
\* number of possible-mutation events given to the expector, over all regions
MaxExpectEvents == 3
\* number of classified observed mutations given to the comparator
MaxObserved == 2
\* length of the ref and alt strings of an observed mutation
MaxAlleleLen == 4

(***************************************************************************)
(* The state.                                                              *)
(***************************************************************************)
\* counts.rs: one DefaultCounter
VARIABLES
    values,      \* DefaultCounter.values
    origin,      \* "new": built by DefaultCounter::new; "file": by try_from
    inc_calls    \* history: inc_calls[i] = number of inc(i) calls so far

\* parameters shared by the pipeline steps
VARIABLES
    possible_mutations,           \* region -> list of MutationEvent
    filter_for_id                 \* None or a region name

\* sample.rs: sample_mutations
VARIABLES
    number_of_samplings,          \* parameter
    drop_unknown_mutation_type,   \* parameter
    sample_pc,                    \* where sample_mutations stands
    regions_left,                 \* regions the outer loop has not visited
    region_name,                  \* region of the current iteration
    mutations,                    \* mutation type -> probabilities of the region
    mutation_type,                \* type of the current iteration
    mutation_probabilities,       \* its sorted probabilities
    counter,                      \* its DefaultCounter
    trials,                       \* trials done for it
    distributions,                \* mutation type -> DefaultCounter of the region
    sampled,                      \* result: region -> distributions
    last_trial                    \* history: the last trial's threshold and inc argument

\* expect.rs: expected_number_of_mutations
VARIABLES
    expect_pc,                    \* where expected_number_of_mutations stands
    expect_regions_left,          \* regions the outer loop has not visited
    expect_region,                \* region of the current iteration
    event_index,                  \* events of the region already added
    precise_counts,               \* mutation type -> BigDecimal sum
    expected                      \* result: region -> ExpectedMutationCounts

\* compare.rs: compare_mutations
VARIABLES
    classified_observed_mutations,  \* parameter: list of AnnotatedPointMutation
    compare_pc,                     \* where compare_mutations stands
    compare_regions_left,           \* regions of expected_mutations not yet visited
    observed_mutations,             \* region -> ObservedMutationCounts (the tally)
    rows,                           \* result vector before the sort
    warnings,                       \* the (region, type) pairs warned about
    compared                        \* the Result returned

\* observed.rs: one observed mutation, from Mutation::new to is_frameshift
VARIABLES
    from,        \* parameter of Mutation::new: the ref string
    to,          \* parameter of Mutation::new: the alt string
    change,      \* Mutation.change
    frameshift,  \* what change.is_frameshift() returned
    change_pc    \* where the mutation stands

\* enumerate.rs and observed.rs: the enumerator and the classifier over one
\* reference genome and one list of annotations
VARIABLES
    genome,                        \* the 2bit file: chromosome -> bases
    annotations,                   \* the SeqAnnotations (--genomic-regions)
    mutation_rates,                \* the point-mutation oracle (PaPaPred)
    scaling_factor,                \* parameter of enumerate_possible_mutations
    drop_nan,                      \* parameter of enumerate_possible_mutations
    classify_observed_mutations,   \* parameter observed_mutations of classify_mutations
    enumerate_pc,                  \* where enumerate_possible_mutations stands
    enumerate_index,               \* the annotation its loop is at
    enumerate_result,              \* its local result
    enumerate_warnings,            \* the annotations it warned about
    classify_pc,                   \* where classify_mutations stands
    classify_index,                \* the annotation its loop is at
    seq_of_region,                 \* its local seq_of_region
    relevant_mutations,            \* the relevant mutations not yet classified
    classified                     \* its local result

\* sample.rs, expect.rs, enumerate.rs, observed.rs: one artifact written to a
\* file by write_to_file and read back by read_from_file
VARIABLES
    artifact,    \* which module's write_to_file and read_from_file are called
    written,     \* the value handed to write_to_file
    file,        \* the file: its lines, no line before write_to_file returns
    read_back,   \* the Result read_from_file returned
    file_pc      \* "start", "written" or "read"

\* main.rs: one run of the program
VARIABLES
    action,             \* --action, None without it
    flags,              \* the file flags given on the command line
    condition,          \* what is the matter with the input files, if anything
    main_pc,            \* the block of main the run is at
    loaded,             \* the locals of main that are Some
    steps_run,          \* the steps called so far, in order
    artifacts_written,  \* the flags whose file a step has written, in order
    exit,               \* "running", "Ok" (exit zero), "Err" or "panic"
    error               \* what the error names, None without error

\* transform.rs: one call of transform_gff3_annotations
VARIABLES
    annotations_file,     \* the rows of the GFF3 file, comment lines left out
    transform_filter_for_id,  \* its parameter filter_for_id, an Option
    row_index,            \* the row the loop is at
    current_entity_name,  \* the locals of the function
    current_chromosome,
    current_range,
    current_strand,
    current_exons,
    current_cdss,
    transform_result,     \* its local result
    transformed,          \* the Result it returned
    transform_pc          \* "rows", "finish" or "done"

counterVars == <<values, origin, inc_calls>>
transformVars ==
    <<annotations_file, transform_filter_for_id, row_index, current_entity_name,
      current_chromosome, current_range, current_strand, current_exons, current_cdss,
      transform_result, transformed, transform_pc>>
mainVars ==
    <<action, flags, condition, main_pc, loaded, steps_run, artifacts_written, exit,
      error>>
fileVars == <<artifact, written, file, read_back, file_pc>>
inputVars ==
    <<genome, annotations, mutation_rates, scaling_factor, drop_nan,
      classify_observed_mutations>>
enumerateVars == <<enumerate_pc, enumerate_index, enumerate_result, enumerate_warnings>>
classifyVars ==
    <<classify_pc, classify_index, seq_of_region, relevant_mutations, classified>>
annotateVars == <<inputVars, enumerateVars, classifyVars>>
changeVars == <<from, to, change, frameshift, change_pc>>
compareVars ==
    <<classified_observed_mutations, compare_pc, compare_regions_left,
      observed_mutations, rows, warnings, compared>>
expectVars ==
    <<expect_pc, expect_regions_left, expect_region, event_index, precise_counts,
      expected>>
paramVars == <<possible_mutations, filter_for_id>>
sampleVars ==
    <<number_of_samplings, drop_unknown_mutation_type, sample_pc, regions_left,
      region_name, mutations, mutation_type, mutation_probabilities, counter,
      trials, distributions, sampled, last_trial>>

vars ==
    <<counterVars, paramVars, sampleVars, expectVars, compareVars, changeVars,
      annotateVars, fileVars, mainVars, transformVars>>

\* what the steps of one component leave alone
notCounter == <<paramVars, sampleVars, expectVars, compareVars, changeVars, annotateVars, fileVars, mainVars, transformVars>>
notSample == <<paramVars, counterVars, expectVars, compareVars, changeVars, annotateVars, fileVars, mainVars, transformVars>>
notExpect == <<paramVars, counterVars, sampleVars, compareVars, changeVars, annotateVars, fileVars, mainVars, transformVars>>
notAnnotate ==
    <<counterVars, sampleVars, expectVars, compareVars, changeVars, fileVars,
      mainVars, transformVars>>
notFiles ==
    <<paramVars, counterVars, sampleVars, expectVars, compareVars, changeVars,
      annotateVars, mainVars, transformVars>>
notMain ==
    <<paramVars, counterVars, sampleVars, expectVars, compareVars, changeVars,
      annotateVars, fileVars, transformVars>>
notTransform ==
    <<paramVars, counterVars, sampleVars, expectVars, compareVars, changeVars, annotateVars,
      fileVars, mainVars>>
notChange == <<paramVars, counterVars, sampleVars, expectVars, compareVars, annotateVars, fileVars, mainVars, transformVars>>
notCompare == <<paramVars, counterVars, sampleVars, expectVars, changeVars, annotateVars, fileVars, mainVars, transformVars>>

(***************************************************************************)
(* f32 (crate::Float).  A finite value is the reduced fraction n/d of two  *)
(* small naturals; every quotient of the model has operands far below 2^12,*)
(* where two fractions round to the same f32 only if they are equal, so    *)
(* the correctly rounded quotient is identified with the exact one.  0/0   *)
(* is NaN and x/0 (x > 0) is +inf, as in IEEE 754.                         *)
(***************************************************************************)
RECURSIVE GCD(_, _)
GCD(a, b) == IF b = 0 THEN a ELSE GCD(b, a % b)

NaN == [k |-> "nan", n |-> 0, d |-> 0]
Inf == [k |-> "inf", n |-> 1, d |-> 0]
Num(a, b) == [k |-> "num", n |-> a \div GCD(a, b), d |-> b \div GCD(a, b)]
\* `x as Float` for an unsigned integer x
FromNat(x) == Num(x, 1)
\* the f32 quotient of two integer-valued floats
FDiv(a, b) == IF b = 0 THEN (IF a = 0 THEN NaN ELSE Inf) ELSE Num(a, b)
\* PartialEq for f32: NaN equals nothing, itself included
FEq(x, y) == x.k # "nan" /\ y.k # "nan" /\ x = y
\* x < y on f32 (false when either is NaN)
FLt(x, y) ==
    /\ x.k # "nan" /\ y.k # "nan"
    /\ IF x.k = "inf" THEN FALSE
       ELSE IF y.k = "inf" THEN TRUE
       ELSE x.n * y.d < y.n * x.d

(***************************************************************************)
(* Strings are sequences of characters.                                    *)
(***************************************************************************)
Digits == <<"0", "1", "2", "3", "4", "5", "6", "7", "8", "9">>
IsDigit(c) == \E i \in 1..10 : Digits[i] = c
DigitValue(c) == (CHOOSE i \in 1..10 : Digits[i] = c) - 1

\* usize::to_string
RECURSIVE NatToString(_)
NatToString(x) ==
    IF x < 10 THEN <<Digits[x + 1]>>
    ELSE NatToString(x \div 10) \o <<Digits[(x % 10) + 1]>>

\* str::parse::<usize>: the empty string and any non-digit are errors
RECURSIVE DigitsValue(_)
DigitsValue(s) ==
    IF s = <<>> THEN 0
    ELSE 10 * DigitsValue(SubSeq(s, 1, Len(s) - 1)) + DigitValue(s[Len(s)])
ParseUsize(s) ==
    IF s # <<>> /\ \A i \in 1..Len(s) : IsDigit(s[i])
    THEN [ok |-> TRUE, value |-> DigitsValue(s)]
    ELSE [ok |-> FALSE, value |-> 0]

\* str::split(sep): the pieces between the separators; "" splits into [""]
RECURSIVE Split(_, _)
Split(s, sep) ==
    IF \A i \in 1..Len(s) : s[i] # sep THEN <<s>>
    ELSE LET i == CHOOSE j \in 1..Len(s) :
                      s[j] = sep /\ \A h \in 1..(j - 1) : s[h] # sep
         IN <<SubSeq(s, 1, i - 1)>> \o Split(SubSeq(s, i + 1, Len(s)), sep)

RECURSIVE SumSeq(_)
SumSeq(s) == IF s = <<>> THEN 0 ELSE Head(s) + SumSeq(Tail(s))

(***************************************************************************)
(* counts.rs: DefaultCounter and PValues.  A counter is its vector values. *)
(***************************************************************************)
\* DefaultCounter::new
new == <<>>

\* DefaultCounter::inc: zero-extend to the index, then add one
inc(vals, index) ==
    LET ext == vals \o [j \in 1..(index + 1 - Len(vals)) |-> 0]
    IN [ext EXCEPT ![index + 1] = @ + 1]

\* DefaultCounter::p_values: the right-to-left running sum over the total
RECURSIVE Reverse(_)
Reverse(s) == IF s = <<>> THEN <<>> ELSE Reverse(Tail(s)) \o <<Head(s)>>

\* the loop of p_values over values.iter().rev(): add the count, push the quotient
RECURSIVE PushQuotients(_, _, _)
PushQuotients(rev, accumulator, total) ==
    IF rev = <<>> THEN <<>>
    ELSE LET acc == accumulator + Head(rev)
         IN <<FDiv(acc, total)>> \o PushQuotients(Tail(rev), acc, total)

p_values_not_reversed(vals) == PushQuotients(Reverse(vals), 0, SumSeq(vals))
RECURSIVE PushQuotientsBefore(_, _, _)
PushQuotientsBefore(rev, accumulator, total) ==
    IF rev = <<>> THEN <<>>
    ELSE <<FDiv(accumulator, total)>>
             \o PushQuotientsBefore(Tail(rev), accumulator + Head(rev), total)
p_values_more_than(vals) ==
    Reverse(PushQuotientsBefore(Reverse(vals), 0, SumSeq(vals)))
p_values_pointwise(vals) == [i \in 1..Len(vals) |-> FDiv(vals[i], SumSeq(vals))]
p_values(vals) == Reverse(PushQuotients(Reverse(vals), 0, SumSeq(vals)))

\* PValues::n_hits_or_more: p_values.get(n), 0.0 beyond the end
n_hits_or_more_clamped(pv, n) ==
    IF pv = <<>> THEN FromNat(0)
    ELSE IF n < Len(pv) THEN pv[n + 1] ELSE pv[Len(pv)]
n_hits_or_more(pv, n) == IF n < Len(pv) THEN pv[n + 1] ELSE FromNat(0)

\* ToString for DefaultCounter: the values joined by '|'
RECURSIVE to_string(_)
to_string(vals) ==
    IF vals = <<>> THEN <<>>
    ELSE IF Len(vals) = 1 THEN NatToString(vals[1])
    ELSE to_string(SubSeq(vals, 1, Len(vals) - 1)) \o <<"|">>
             \o NatToString(vals[Len(vals)])

\* TryFrom<&str> for DefaultCounter: split at '|', parse every piece
try_from(string) ==
    LET pieces == Split(string, "|")
        parsed == [i \in 1..Len(pieces) |-> ParseUsize(pieces[i])]
    IN IF \A i \in 1..Len(pieces) : parsed[i].ok
       THEN [ok |-> TRUE, values |-> [i \in 1..Len(pieces) |-> parsed[i].value]]
       ELSE [ok |-> FALSE, values |-> <<>>]

(***************************************************************************)
(* The counter as an object: built by new() and inc calls, or read from    *)
(* the histogram column of a sampled-mutations file.                       *)
(***************************************************************************)
RECURSIVE SeqsUpTo(_, _)
SeqsUpTo(S, n) ==
    IF n = 0 THEN {<<>>}
    ELSE LET shorter == SeqsUpTo(S, n - 1)
         IN shorter \cup {Append(s, x) : s \in {t \in shorter : Len(t) = n - 1}, x \in S}

\* the histograms a file column can hold
FileHistograms == SeqsUpTo(0..MaxFileCount, MaxFileLen) \ {<<>>}

NoCalls == [i \in 0..MaxIndex |-> 0]
NumCalls == SumSeq([i \in 1..(MaxIndex + 1) |-> inc_calls[i - 1]])

CounterInit ==
    /\ inc_calls = NoCalls
    /\ \/ values = new /\ origin = "new"
       \/ \E h \in FileHistograms :
              /\ try_from(to_string(h)).ok
              /\ values = try_from(to_string(h)).values
              /\ origin = "file"

Inc(index) ==
    /\ NumCalls < MaxIncs
    /\ values' = inc(values, index)
    /\ inc_calls' = [inc_calls EXCEPT ![index] = @ + 1]
    /\ UNCHANGED <<origin, notCounter>>

CounterNext == \E index \in 0..MaxIndex : Inc(index)

CounterIdle == values = new /\ origin = "new" /\ inc_calls = NoCalls


(***************************************************************************)
(* MutationType (mutexpect), in the canonical order of MutationType::iter. *)
(***************************************************************************)
MutationTypes ==
    <<"Unknown", "Synonymous", "Missense", "Nonsense", "StartCodon", "StopLoss",
      "SpliceSite", "Intronic", "InFrameIndel", "FrameshiftIndel">>
MutationTypeSet == {MutationTypes[i] : i \in 1..Len(MutationTypes)}

\* region names; None is Option::None of filter_for_id
Regions == {"r1", "r2"}
None == "None"

\* a HashMap is a function on its key set
EmptyMap == [x \in {} |-> 0]
Insert(map, key, value) ==
    [x \in DOMAIN map \cup {key} |-> IF x = key THEN value ELSE map[x]]

(***************************************************************************)
(* Probabilities are f32 values, written as integer multiples of 2^-25:    *)
(* all of them are exactly representable, and f32 compares them as the     *)
(* integers compare.                                                       *)
(***************************************************************************)
Quantum == 25
One == 2^Quantum
Half == 2^(Quantum - 1)
Quarter == 2^(Quantum - 2)

\* MutationEvent::new
MutationEvent(type, probability) ==
    [mutation_type |-> type, probability |-> probability]

(***************************************************************************)
(* sample.rs: sample_mutations                                             *)
(***************************************************************************)
\* the probabilities and the thresholds (rand's uniform f32 in [0, 1)) drawn
SampleProbabilities == {0, Quarter, Half}
Thresholds == {0, Quarter, Quarter + Quarter \div 2, Half}
SampleEventTypes == {"Unknown", "Synonymous"}
SampleEvents ==
    {MutationEvent(ty, pr) : ty \in SampleEventTypes, pr \in SampleProbabilities}

\* lines 35-44: bucket the probabilities of the events by mutation type
RECURSIVE Bucket(_, _)
Bucket(events, drop_unknown) ==
    IF events = <<>> THEN EmptyMap
    ELSE LET before == Bucket(SubSeq(events, 1, Len(events) - 1), drop_unknown)
             event == events[Len(events)]
         IN IF drop_unknown /\ event.mutation_type = "Unknown" THEN before
            ELSE Insert(before, event.mutation_type,
                        (IF event.mutation_type \in DOMAIN before
                         THEN before[event.mutation_type] ELSE <<>>)
                            \o <<event.probability>>)

\* line 51: sort_unstable_by(partial_cmp), ascending
RECURSIVE InsertSorted(_, _)
InsertSorted(sorted, x) ==
    IF sorted = <<>> THEN <<x>>
    ELSE IF x < Head(sorted) THEN <<x>> \o sorted
    ELSE <<Head(sorted)>> \o InsertSorted(Tail(sorted), x)
RECURSIVE SortAscending(_)
SortAscending(s) ==
    IF s = <<>> THEN <<>>
    ELSE InsertSorted(SortAscending(SubSeq(s, 1, Len(s) - 1)), s[Len(s)])

\* slice::binary_search_by on a sorted vector, 0-based: Ok(index) of a match
\* (any one of several matches may be returned) or Err(insertion index)
BinarySearchOutcomes(probs, threshold) ==
    LET matches == {i \in 0..(Len(probs) - 1) : probs[i + 1] = threshold}
    IN IF matches # {}
       THEN {[ok |-> TRUE, index |-> i] : i \in matches}
       ELSE {[ok |-> FALSE,
              index |-> Cardinality({i \in 1..Len(probs) : probs[i] < threshold})]}

\* lines 64-69: walk left from a match while i > 1 and the entry before is equal
RECURSIVE Leftmost(_, _, _)
Leftmost(probs, threshold, i) ==
    IF i > 1 /\ probs[(i - 1) + 1] = threshold
    THEN Leftmost(probs, threshold, i - 1)
    ELSE i

\* lines 60-73: the failures for one search outcome, and the successes
Failures(probs, threshold, found) ==
    IF found.ok THEN Leftmost(probs, threshold, found.index) ELSE found.index
Successes_OffByOne(probs, threshold, found) ==
    Len(probs) - Failures(probs, threshold, found) + 1
Successes(probs, threshold, found) ==
    Len(probs) - Failures(probs, threshold, found)

NoTrial == [done |-> FALSE, probs |-> <<>>, threshold |-> 0, successes |-> 0]

\* the event lists of the two regions: a list of at most MaxEvents events cut in two
SamplePossibleMutations ==
    UNION {{[r \in Regions |-> IF r = "r1" THEN SubSeq(l, 1, cut)
                                ELSE SubSeq(l, cut + 1, Len(l))] : cut \in 0..Len(l)} :
               l \in SeqsUpTo(SampleEvents, MaxEvents)}

SampleLocals ==
    /\ region_name = None
    /\ mutations = EmptyMap
    /\ mutation_type = None
    /\ mutation_probabilities = <<>>
    /\ counter = new
    /\ trials = 0
    /\ distributions = EmptyMap
    /\ last_trial = NoTrial

SampleLocalsInit ==
    /\ sample_pc = "regions"
    /\ regions_left = DOMAIN possible_mutations
    /\ sampled = EmptyMap
    /\ SampleLocals

SampleInit ==
    /\ possible_mutations \in SamplePossibleMutations
    /\ filter_for_id \in {None, "r1"}
    /\ number_of_samplings \in 0..MaxSamplings
    /\ drop_unknown_mutation_type \in BOOLEAN
    /\ SampleLocalsInit

\* line 27-46: the next region of the map; a filtered-out region is skipped
SampleRegion ==
    /\ sample_pc = "regions"
    /\ \E r \in regions_left :
          /\ regions_left' = regions_left \ {r}
          /\ IF filter_for_id # None /\ r # filter_for_id
             THEN UNCHANGED <<sample_pc, region_name, mutations, distributions>>
             ELSE /\ region_name' = r
                  /\ mutations' = Bucket(possible_mutations[r], drop_unknown_mutation_type)
                  /\ distributions' = EmptyMap
                  /\ sample_pc' = "types"
    /\ UNCHANGED <<notSample, number_of_samplings, drop_unknown_mutation_type, mutation_type,
                   mutation_probabilities, counter, trials, sampled, last_trial>>

\* lines 49-53: the next mutation type of the region: sort, new counter
SampleType ==
    /\ sample_pc = "types"
    /\ \E ty \in DOMAIN mutations \ DOMAIN distributions :
          /\ mutation_type' = ty
          /\ mutation_probabilities' = SortAscending(mutations[ty])
    /\ counter' = new
    /\ trials' = 0
    /\ sample_pc' = "trials"
    /\ UNCHANGED <<notSample, number_of_samplings, drop_unknown_mutation_type, regions_left,
                   region_name, mutations, distributions, sampled, last_trial>>

\* lines 55-75: one trial: draw the threshold, search, count
SampleTrial ==
    /\ sample_pc = "trials"
    /\ trials < number_of_samplings
    /\ \E exclusive_threshold \in Thresholds :
       \E found \in BinarySearchOutcomes(mutation_probabilities, exclusive_threshold) :
          LET successes == Successes(mutation_probabilities, exclusive_threshold, found)
          IN /\ counter' = inc(counter, successes)
             /\ last_trial' = [done |-> TRUE, probs |-> mutation_probabilities,
                               threshold |-> exclusive_threshold,
                               successes |-> successes]
    /\ trials' = trials + 1
    /\ UNCHANGED <<notSample, number_of_samplings, drop_unknown_mutation_type, sample_pc,
                   regions_left, region_name, mutations, mutation_type,
                   mutation_probabilities, distributions, sampled>>

\* line 76: the trials of the type are done
SampleInsertDistribution ==
    /\ sample_pc = "trials"
    /\ trials = number_of_samplings
    /\ distributions' = Insert(distributions, mutation_type, counter)
    /\ sample_pc' = "types"
    /\ UNCHANGED <<notSample, number_of_samplings, drop_unknown_mutation_type, regions_left,
                   region_name, mutations, mutation_type, mutation_probabilities,
                   counter, trials, sampled, last_trial>>

\* line 78: the types of the region are done
SampleInsertRegion ==
    /\ sample_pc = "types"
    /\ DOMAIN mutations \ DOMAIN distributions = {}
    /\ sampled' = Insert(sampled, region_name, distributions)
    /\ sample_pc' = "regions"
    /\ UNCHANGED <<notSample, number_of_samplings, drop_unknown_mutation_type, regions_left,
                   region_name, mutations, mutation_type, mutation_probabilities,
                   counter, trials, distributions, last_trial>>

\* line 80: Ok(result)
SampleReturn ==
    /\ sample_pc = "regions"
    /\ regions_left = {}
    /\ sample_pc' = "returned"
    /\ UNCHANGED <<notSample, number_of_samplings, drop_unknown_mutation_type, regions_left,
                   region_name, mutations, mutation_type, mutation_probabilities,
                   counter, trials, distributions, sampled, last_trial>>

SampleNext ==
    \/ SampleRegion
    \/ SampleType
    \/ SampleTrial
    \/ SampleInsertDistribution
    \/ SampleInsertRegion
    \/ SampleReturn

\* the sampler does not run; sampled is what an earlier run or a file gave
SamplerIdle ==
    /\ number_of_samplings = 0
    /\ drop_unknown_mutation_type = FALSE
    /\ sample_pc = "idle"
    /\ regions_left = {}
    /\ SampleLocals
SampleIdle == SamplerIdle /\ sampled = EmptyMap

ParamsIdle == possible_mutations = EmptyMap /\ filter_for_id = None

(***************************************************************************)
(* f32 arithmetic on probabilities.  A finite non-negative f32 that is a   *)
(* multiple of 2^-25 is written as that multiple; it is representable when *)
(* it fits in a significand of MantissaBits bits.                          *)
(***************************************************************************)
MantissaBits == 24
Tiny == 1

\* the spacing of the f32 values around x
RECURSIVE Ulp(_)
Ulp(x) == IF x < 2^MantissaBits THEN 1 ELSE 2 * Ulp(x \div 2)

\* round to the nearest f32, ties to the even significand
RoundF32(x) ==
    LET ulp == Ulp(x)
        q == x \div ulp
        r == x % ulp
    IN IF 2 * r < ulp THEN q * ulp
       ELSE IF 2 * r > ulp THEN (q + 1) * ulp
       ELSE IF q % 2 = 0 THEN q * ulp ELSE (q + 1) * ulp

\* f32 +
FAdd32(x, y) == RoundF32(x + y)

(***************************************************************************)
(* counts.rs: MutationTypeCounts<Count>, one field per mutation type.      *)
(***************************************************************************)
\* MutationTypeCounts::default
DefaultCounts == [ty \in MutationTypeSet |-> 0]
\* MutationTypeCounts::get
get(counts, ty) == counts[ty]
\* MutationTypeCounts::add for Count = Float
add(counts, ty, value) == [counts EXCEPT ![ty] = FAdd32(@, value)]
\* MutationTypeCounts::add for Count = usize
add_usize(counts, ty, value) == [counts EXCEPT ![ty] = @ + value]

(***************************************************************************)
(* expect.rs: expected_number_of_mutations                                 *)
(***************************************************************************)
\* f32 -> BigDecimal (try_into): the value itself; BigDecimal -> f32 (to_f32):
\* the nearest f32
ToBigDecimal(probability) == probability
to_f32(decimal) == RoundF32(decimal)

\* lines 34-38: precise_counts[type] += value, an entry starting at zero
AddPrecise_InFloat(precise, event) ==
    Insert(precise, event.mutation_type,
           FAdd32(IF event.mutation_type \in DOMAIN precise
                  THEN precise[event.mutation_type] ELSE 0,
                  event.probability))
AddPrecise(precise, event) ==
    Insert(precise, event.mutation_type,
           (IF event.mutation_type \in DOMAIN precise
            THEN precise[event.mutation_type] ELSE 0)
               + ToBigDecimal(event.probability))

\* lines 42-44: counts.add(mutation_type, probability.to_f32()) for every entry;
\* the entries have different types, so their order does not matter
RECURSIVE AddAll(_, _, _)
AddAll(counts, precise, types) ==
    IF types = {} THEN counts
    ELSE LET ty == CHOOSE x \in types : TRUE
         IN AddAll(add(counts, ty, to_f32(precise[ty])), precise, types \ {ty})

ExpectProbabilities == {Tiny, Half}
ExpectEventTypes == {"Synonymous", "Missense"}
ExpectEvents ==
    {MutationEvent(ty, pr) : ty \in ExpectEventTypes, pr \in ExpectProbabilities}

\* the event lists of the two regions: a list of at most MaxExpectEvents events cut in two
ExpectPossibleMutations ==
    UNION {{[r \in Regions |-> IF r = "r1" THEN SubSeq(l, 1, cut)
                                ELSE SubSeq(l, cut + 1, Len(l))] : cut \in 0..Len(l)} :
               l \in SeqsUpTo(ExpectEvents, MaxExpectEvents)}

ExpectLocalsInit ==
    /\ expect_pc = "regions"
    /\ expect_regions_left = DOMAIN possible_mutations
    /\ expect_region = None
    /\ event_index = 0
    /\ precise_counts = EmptyMap
    /\ expected = EmptyMap

ExpectInit ==
    /\ possible_mutations \in ExpectPossibleMutations
    /\ filter_for_id \in {None, "r1"}
    /\ ExpectLocalsInit

\* lines 21-30: the next region of the map; a filtered-out region is skipped
ExpectRegion ==
    /\ expect_pc = "regions"
    /\ \E r \in expect_regions_left :
          /\ expect_regions_left' = expect_regions_left \ {r}
          /\ IF filter_for_id # None /\ r # filter_for_id
             THEN UNCHANGED <<expect_pc, expect_region, event_index, precise_counts>>
             ELSE /\ expect_region' = r
                  /\ event_index' = 0
                  /\ precise_counts' = EmptyMap
                  /\ expect_pc' = "events"
    /\ UNCHANGED <<notExpect, expected>>

\* lines 31-40: the next event of the region
ExpectEvent ==
    /\ expect_pc = "events"
    /\ event_index < Len(possible_mutations[expect_region])
    /\ event_index' = event_index + 1
    /\ precise_counts' =
           AddPrecise(precise_counts, possible_mutations[expect_region][event_index + 1])
    /\ UNCHANGED <<notExpect, expect_pc, expect_regions_left, expect_region, expected>>

\* lines 42-45: convert the sums and insert the region's counts
ExpectInsertRegion ==
    /\ expect_pc = "events"
    /\ event_index = Len(possible_mutations[expect_region])
    /\ expected' = Insert(expected, expect_region,
                          AddAll(DefaultCounts, precise_counts, DOMAIN precise_counts))
    /\ expect_pc' = "regions"
    /\ UNCHANGED <<notExpect, expect_regions_left, expect_region, event_index,
                   precise_counts>>

\* line 48: Ok(result)
ExpectReturn ==
    /\ expect_pc = "regions"
    /\ expect_regions_left = {}
    /\ expect_pc' = "returned"
    /\ UNCHANGED <<notExpect, expect_regions_left, expect_region, event_index,
                   precise_counts, expected>>

ExpectNext == ExpectRegion \/ ExpectEvent \/ ExpectInsertRegion \/ ExpectReturn

\* the expector does not run; expected is what an earlier run or a file gave
ExpectorIdle ==
    /\ expect_pc = "idle"
    /\ expect_regions_left = {}
    /\ expect_region = None
    /\ event_index = 0
    /\ precise_counts = EmptyMap
ExpectIdle == ExpectorIdle /\ expected = EmptyMap

(***************************************************************************)
(* compare.rs: tally_up_observed_mutations and compare_mutations           *)
(***************************************************************************)
\* an AnnotatedPointMutation, as far as the comparator reads it
AnnotatedPointMutation(region, ty) == [region_name |-> region, mutation_type |-> ty]

\* lines 54-71: count the mutations per region and type; with a filter, only
\* the mutations of that region
RECURSIVE tally_up_observed_mutations(_, _)
tally_up_observed_mutations(muts, filter) ==
    IF muts = <<>> THEN EmptyMap
    ELSE LET before == tally_up_observed_mutations(SubSeq(muts, 1, Len(muts) - 1), filter)
             mutation == muts[Len(muts)]
         IN IF filter # None /\ mutation.region_name # filter THEN before
            ELSE Insert(before, mutation.region_name,
                        add_usize(IF mutation.region_name \in DOMAIN before
                                  THEN before[mutation.region_name] ELSE DefaultCounts,
                                  mutation.mutation_type, 1))

\* ComparedMutations::new
ComparedMutations(region, ty, obs, exp, p_value) ==
    [region |-> region, mutation_type |-> ty, observed |-> obs, expected |-> exp,
     p_value |-> p_value]

\* lines 29-48: the rows of one region, in the order of MutationType::iter; a
\* type without a distribution gives no row, and a warning if expected != 0
RECURSIVE RegionRows(_, _, _, _, _)
RegionRows(region, region_expected, region_observed, region_sampled, i) ==
    IF i > Len(MutationTypes) THEN <<>>
    ELSE LET ty == MutationTypes[i]
             rest == RegionRows(region, region_expected, region_observed,
                                region_sampled, i + 1)
         IN IF ty = "Unknown" THEN rest
            ELSE IF ty \notin DOMAIN region_sampled THEN rest
            ELSE LET obs == get(region_observed, ty)
                     p_value == n_hits_or_more(p_values(region_sampled[ty]), obs)
                 IN <<ComparedMutations(region, ty, obs, get(region_expected, ty),
                                        p_value)>> \o rest
RegionWarnings(region, region_expected, region_sampled) ==
    {<<region, ty>> : ty \in {x \in MutationTypeSet \ {"Unknown"} :
                                 x \notin DOMAIN region_sampled
                                     /\ get(region_expected, x) # 0}}

\* line 50: is_less of the comparator partial_cmp(p_value).unwrap_or(Equal):
\* a NaN on either side compares Equal
is_less(a, b) == FLt(a.p_value, b.p_value)

\* the last element moves left while it is less than its left neighbour
RECURSIVE insert_tail(_, _)
insert_tail(sorted, tail) ==
    IF sorted = <<>> THEN <<tail>>
    ELSE IF is_less(tail, sorted[Len(sorted)])
    THEN insert_tail(SubSeq(sorted, 1, Len(sorted) - 1), tail) \o <<sorted[Len(sorted)]>>
    ELSE Append(sorted, tail)

\* line 50: sort_unstable_by on a slice of up to 20 elements, which the
\* standard library sorts by insertion: every element in turn is inserted
\* into the sorted prefix before it
RECURSIVE sort_unstable_by(_)
sort_unstable_by(rs) ==
    IF rs = <<>> THEN <<>>
    ELSE insert_tail(sort_unstable_by(SubSeq(rs, 1, Len(rs) - 1)), rs[Len(rs)])

NoResult == [state |-> "none", rows |-> <<>>]
Ok(rs) == [state |-> "Ok", rows |-> rs]
Err == [state |-> "Err", rows |-> <<>>]

\* the inputs drawn
CompareCounters == {<<1, 1>>, <<0, 2>>, <<0, 0>>}
ObservedTypes == {"Unknown", "Synonymous", "Missense"}
ObservedMutations ==
    {AnnotatedPointMutation(r, ty) : r \in Regions, ty \in ObservedTypes}
MapsOn(keys, vals) == UNION {[d -> vals] : d \in SUBSET keys}
CompareSampled ==
    LET first == {f \in MapsOn({"Unknown", "Synonymous", "Missense"}, CompareCounters) :
                      /\ "Unknown" \in DOMAIN f => f["Unknown"] = <<0, 2>>
                      /\ "Missense" \in DOMAIN f => f["Missense"] = <<1, 1>>}
        second == {[ty \in {"Synonymous"} |-> <<1, 1>>], EmptyMap}
    IN {[r \in {"r1"} |-> f] : f \in first}
           \cup {[r \in Regions |-> IF r = "r1" THEN f ELSE g] : f \in first, g \in second}
CompareExpected ==
    LET counts == {DefaultCounts, [DefaultCounts EXCEPT !["Synonymous"] = Half]}
    IN {EmptyMap} \cup {[r \in {"r1"} |-> c] : c \in counts}
           \cup {[r \in Regions |-> IF r = "r1" THEN c ELSE [DefaultCounts EXCEPT !["Missense"] = Quarter]] : c \in counts}

CompareLocalsInit ==
    /\ compare_pc = "tally"
    /\ compare_regions_left = DOMAIN expected
    /\ observed_mutations = EmptyMap
    /\ rows = <<>>
    /\ warnings = {}
    /\ compared = NoResult

\* lines 19-21: the tally of the observed mutations
CompareTally ==
    /\ compare_pc = "tally"
    /\ observed_mutations' =
           tally_up_observed_mutations(classified_observed_mutations, filter_for_id)
    /\ compare_pc' = "regions"
    /\ UNCHANGED <<notCompare, classified_observed_mutations, compare_regions_left,
                   rows, warnings, compared>>

\* lines 24-49: the next region of expected_mutations; a region without an
\* entry in sampled_mutations ends the function with an error
CompareRegion ==
    /\ compare_pc = "regions"
    /\ \E region \in compare_regions_left :
          /\ compare_regions_left' = compare_regions_left \ {region}
          /\ IF region \notin DOMAIN sampled
             THEN /\ compare_pc' = "returned"
                  /\ compared' = Err
                  /\ UNCHANGED <<rows, warnings>>
             ELSE LET region_observed ==
                          IF region \in DOMAIN observed_mutations
                          THEN observed_mutations[region] ELSE DefaultCounts
                  IN /\ rows' = rows \o RegionRows(region, expected[region],
                                                   region_observed, sampled[region], 1)
                     /\ warnings' = warnings \cup
                            RegionWarnings(region, expected[region], sampled[region])
                     /\ UNCHANGED <<compare_pc, compared>>
    /\ UNCHANGED <<notCompare, classified_observed_mutations, observed_mutations>>

\* lines 50-51: sort and return
CompareReturn ==
    /\ compare_pc = "regions"
    /\ compare_regions_left = {}
    /\ compared' = Ok(sort_unstable_by(rows))
    /\ compare_pc' = "returned"
    /\ UNCHANGED <<notCompare, classified_observed_mutations, compare_regions_left,
                   observed_mutations, rows, warnings>>

CompareNext == CompareTally \/ CompareRegion \/ CompareReturn

\* the comparator has not run
CompareIdle ==
    /\ classified_observed_mutations = <<>>
    /\ compare_pc = "idle"
    /\ compare_regions_left = {}
    /\ observed_mutations = EmptyMap
    /\ rows = <<>>
    /\ warnings = {}
    /\ compared = NoResult

\* the comparator's inputs: the expected counts and the sampled distributions
\* are those of earlier steps or of files
CompareInit ==
    /\ classified_observed_mutations \in SeqsUpTo(ObservedMutations, MaxObserved)
    /\ expected \in CompareExpected
    /\ sampled \in CompareSampled
    /\ filter_for_id \in {None} \cup Regions
    /\ possible_mutations = EmptyMap
    /\ CompareLocalsInit

(***************************************************************************)
(* observed.rs: Mutation::new, Change and Change::is_frameshift            *)
(***************************************************************************)
PointMutation(ref, alt) == [kind |-> "PointMutation", from |-> ref, to |-> alt]
Indel(ref, alt) == [kind |-> "Indel", from |-> ref, to |-> alt]
NoChange == [kind |-> "none", from |-> <<>>, to |-> <<>>]
Panicked == [kind |-> "panic", from |-> <<>>, to |-> <<>>]

\* lines 34-45: the change of Mutation::new(region, chromosome, position, from, to);
\* the point mutation holds the first character of each string
NewChange(ref, alt) ==
    IF Len(ref) = 1 /\ Len(alt) = 1 THEN PointMutation(<<ref[1]>>, <<alt[1]>>)
    ELSE IF Len(ref) = 0 \/ Len(alt) = 0 THEN Panicked
    ELSE Indel(ref, alt)

\* isize::rem_euclid for a positive divisor
rem_euclid(n, d) == ((n % d) + d) % d

\* the difference of two lengths taken in usize arithmetic without wrap
net_length_unsigned(a, b) == IF a >= b THEN a - b ELSE 0
\* line 70: inserted.len() as isize - deleted.len() as isize
net_length(a, b) == a - b

\* lines 66-74; the two fields of Indel are bound to the names inserted and
\* deleted in that order
is_frameshift(c) ==
    IF c.kind = "PointMutation" THEN FALSE
    ELSE LET inserted == c.from
             deleted == c.to
         IN rem_euclid(net_length(Len(inserted), Len(deleted)), 3) # 0

\* the ref and alt strings drawn
AlleleBases == {"A", "C"}
Alleles == SeqsUpTo(AlleleBases, MaxAlleleLen)

ChangeInit ==
    /\ from \in Alleles
    /\ to \in Alleles
    /\ change = NoChange
    /\ frameshift = None
    /\ change_pc = "new"

\* lines 34-47: Mutation::new
MutationNew ==
    /\ change_pc = "new"
    /\ change' = NewChange(from, to)
    /\ change_pc' = IF NewChange(from, to) = Panicked THEN "panicked" ELSE "built"
    /\ UNCHANGED <<notChange, from, to, frameshift>>

\* lines 66-74: change.is_frameshift()
IsFrameshift ==
    /\ change_pc = "built"
    /\ frameshift' = is_frameshift(change)
    /\ change_pc' = "asked"
    /\ UNCHANGED <<notChange, from, to, change>>

ChangeNext == MutationNew \/ IsFrameshift

\* no mutation is being built
ChangeIdle ==
    /\ from = <<>>
    /\ to = <<>>
    /\ change = NoChange
    /\ frameshift = None
    /\ change_pc = "idle"

(***************************************************************************)
(* mutexpect: Interval, CDS, SeqAnnotation and the point-mutation          *)
(* classifier.  The crate is not part of the sources; its behaviour is     *)
(* taken from the data model and the classifier section of the             *)
(* specification.  Coordinates are 0-based, intervals half-open.           *)
(***************************************************************************)
Some(x) == <<x>>
Nothing == <<>>

Interval(start, stop) == [start |-> start, stop |-> stop]
contains(interval, position) == interval.start <= position /\ position < interval.stop
CDS(range, phase) == [range |-> range, phase |-> phase]
SeqAnnotation(name, chr, range, strand, exons, coding_sequences) ==
    [name |-> name, chr |-> chr, range |-> range, strand |-> strand,
     exons |-> exons, coding_sequences |-> coding_sequences]

\* the introns of an annotation: the gaps between neighbouring exons
Introns(annotation) ==
    LET exons == {annotation.exons[i] : i \in 1..Len(annotation.exons)}
    IN {Interval(a.stop, b.start) : <<a, b>> \in
           {pair \in exons \X exons :
               /\ pair[1].stop < pair[2].start
               /\ ~\E c \in exons : pair[1].stop <= c.start /\ c.stop <= pair[2].start}}

find_intron(annotation, position) ==
    LET found == {intron \in Introns(annotation) : contains(intron, position)}
    IN IF found = {} THEN Nothing ELSE Some(CHOOSE intron \in found : TRUE)

find_cds(annotation, position) ==
    LET found == {i \in 1..Len(annotation.coding_sequences) :
                     contains(annotation.coding_sequences[i].range, position)}
    IN IF found = {} THEN Nothing
       ELSE Some(annotation.coding_sequences[CHOOSE i \in found : \A j \in found : i <= j])

\* the number of intronic bases next to an exon that are a splice site
SpliceSiteWidth == 2

\* a position in an intron is a splice site within 2 bp of the intron's ends
\* and intronic otherwise; any other position is not decided by position
classify_by_position(position, sequence, overlapping_intron) ==
    IF overlapping_intron = Nothing THEN "Unknown"
    ELSE LET intron == overlapping_intron[1]
         IN IF position < intron.start + SpliceSiteWidth
                   \/ position >= intron.stop - SpliceSiteWidth
            THEN "SpliceSite" ELSE "Intronic"

Bases == <<"T", "C", "A", "G">>
BaseSet == {Bases[i] : i \in 1..Len(Bases)}
BaseIndex(base) == CHOOSE i \in 1..Len(Bases) : Bases[i] = base

\* the standard genetic code, codons in the order TTT, TTC, TTA, TTG, TCT, ...
AminoAcids ==
    <<"F", "F", "L", "L", "S", "S", "S", "S", "Y", "Y", "*", "*", "C", "C", "*", "W",
      "L", "L", "L", "L", "P", "P", "P", "P", "H", "H", "Q", "Q", "R", "R", "R", "R",
      "I", "I", "I", "M", "T", "T", "T", "T", "N", "N", "K", "K", "S", "S", "R", "R",
      "V", "V", "V", "V", "A", "A", "A", "A", "D", "D", "E", "E", "G", "G", "G", "G">>
translate(codon) ==
    IF \A i \in 1..3 : codon[i] \in BaseSet
    THEN AminoAcids[16 * (BaseIndex(codon[1]) - 1) + 4 * (BaseIndex(codon[2]) - 1)
                        + BaseIndex(codon[3])]
    ELSE "X"

complement(base) ==
    CASE base = "A" -> "T" [] base = "T" -> "A" [] base = "C" -> "G" [] base = "G" -> "C"
      [] OTHER -> base
reverse_complement(sequence) ==
    [i \in 1..Len(sequence) |-> complement(sequence[Len(sequence) + 1 - i])]

\* the codon rules: the codon of the position is cut out of the sequence
\* context with the phase of the CDS, on the transcribed strand
classify_coding_mutation(annotation, position, sequence, alt, cds) ==
    LET minus == annotation.strand = "Minus"
        context == IF minus THEN reverse_complement(sequence) ELSE sequence
        alternate == IF minus THEN complement(alt) ELSE alt
        centre == (Len(sequence) + 1) \div 2
        offset == IF minus THEN cds.range.stop - 1 - position
                  ELSE position - cds.range.start
        frame == (((offset - cds.phase) % 3) + 3) % 3
        codon == SubSeq(context, centre - frame, centre - frame + 2)
        alternate_codon == [codon EXCEPT ![frame + 1] = alternate]
        reference_aa == translate(codon)
        alternate_aa == translate(alternate_codon)
        first_codon == /\ cds = annotation.coding_sequences[1]
                       /\ offset - cds.phase \in 0..2
    IN IF reference_aa = alternate_aa THEN "Synonymous"
       ELSE IF alternate_aa = "*" THEN "Nonsense"
       ELSE IF reference_aa = "*" THEN "StopLoss"
       ELSE IF first_codon /\ reference_aa = "M" THEN "StartCodon"
       ELSE "Missense"

\* the class of the point mutation of a position to the base alt
classify_point_mutation(annotation, position, sequence, alt) ==
    LET by_position ==
            classify_by_position(position, sequence, find_intron(annotation, position))
        overlapping_cds == find_cds(annotation, position)
    IN IF by_position # "Unknown" THEN by_position
       ELSE IF overlapping_cds = Nothing THEN "Unknown"
       ELSE classify_coding_mutation(annotation, position, sequence, alt,
                                     overlapping_cds[1])

(***************************************************************************)
(* The reference genome (twobit) and the mutation oracle (PaPaPred)        *)
(***************************************************************************)
\* TwoBitFile::sequence(chr, start, stop): the bases [start, stop), an error
\* outside the chromosome
SequenceOk(chr, start, stop) ==
    chr \in DOMAIN genome /\ start <= stop /\ stop <= Len(genome[chr])
Sequence(chr, start, stop) == SubSeq(genome[chr], start + 1, stop)

\* the oracle knows the k-mers over A, C, G and T; any other has rate NaN
RateIsNaN(window) == \E i \in 1..Len(window) : window[i] \notin BaseSet
\* the rate of a known k-mer
Rate == Quarter

\* the alternative bases, in the order the enumerator takes them
Alternatives == <<"A", "C", "G", "T">>

\* mutexpect::possible_mutations: the events of one base of the annotation,
\* seq[at] being the first base of its window
RECURSIVE EventsOfBase(_, _, _, _, _, _)
EventsOfBase(seq, annotation, radius, drop, at, a) ==
    IF a > Len(Alternatives) THEN <<>>
    ELSE LET window == SubSeq(seq, at, at + 2 * radius)
             rest == EventsOfBase(seq, annotation, radius, drop, at, a + 1)
             position == annotation.range.start + at - 1
             context == SubSeq(window, radius - 1, radius + 3)
         IN IF Alternatives[a] = window[radius + 1] THEN rest
            ELSE IF RateIsNaN(window)
            THEN IF drop THEN rest ELSE <<MutationEvent("Unknown", 0)>> \o rest
            ELSE <<MutationEvent(classify_point_mutation(annotation, position, context,
                                                         Alternatives[a]),
                                 Rate)>> \o rest

RECURSIVE EventsFrom(_, _, _, _, _)
EventsFrom(seq, annotation, radius, drop, at) ==
    IF at > annotation.range.stop - annotation.range.start THEN <<>>
    ELSE EventsOfBase(seq, annotation, radius, drop, at, 1)
             \o EventsFrom(seq, annotation, radius, drop, at + 1)

\* mutexpect::possible_mutations(seq, annotation, mutation_rates, drop_nan);
\* a sequence too short for the annotation is rejected
mutexpect_possible_mutations(seq, annotation, rates, drop) ==
    IF Len(seq) < 2 * rates.radius + annotation.range.stop - annotation.range.start
    THEN [state |-> "Err", events |-> <<>>]
    ELSE [state |-> "Ok",
          events |-> EventsFrom(seq, annotation, rates.radius, drop, 1)]

(***************************************************************************)
(* enumerate.rs: enumerate_possible_mutations                              *)
(***************************************************************************)
\* line 39: mutation.probability *= scaling_factor, for a scaling factor
\* that is a power of two 2^-k: the product is exact
Scale(probability, factor) == RoundF32(probability \div (One \div factor))

\* lines 37-41
RECURSIVE ScaleAll(_, _)
ScaleAll(events, factor) ==
    IF factor = One \/ events = <<>> THEN events
    ELSE <<MutationEvent(events[1].mutation_type, Scale(events[1].probability, factor))>>
             \o ScaleAll(Tail(events), factor)

\* lines 26-51: the next annotation.  start underflows when the range starts
\* within the radius of the chromosome start: the subtraction panics where
\* overflow is checked, and gives a start behind the end of the chromosome,
\* which the fetch rejects, where it is not.
EnumerateAnnotation ==
    /\ enumerate_pc = "annotations"
    /\ enumerate_index <= Len(annotations)
    /\ LET annotation == annotations[enumerate_index]
           radius == mutation_rates.radius
           start == annotation.range.start - radius
           stop == annotation.range.stop + radius + 1
           outcome == mutexpect_possible_mutations(
                          Sequence(annotation.chr, start, stop), annotation,
                          mutation_rates, drop_nan)
       IN IF filter_for_id # None /\ annotation.name # filter_for_id
          THEN /\ enumerate_index' = enumerate_index + 1
               /\ UNCHANGED <<enumerate_pc, enumerate_result, enumerate_warnings>>
          ELSE IF annotation.range.start < radius
          THEN /\ enumerate_pc' \in {"panicked", "failed"}
               /\ UNCHANGED <<enumerate_index, enumerate_result, enumerate_warnings>>
          ELSE IF ~SequenceOk(annotation.chr, start, stop)
          THEN /\ enumerate_pc' = "failed"
               /\ UNCHANGED <<enumerate_index, enumerate_result, enumerate_warnings>>
          ELSE /\ enumerate_index' = enumerate_index + 1
               /\ IF outcome.state = "Ok"
                  THEN /\ enumerate_result' =
                              Insert(enumerate_result, annotation.name,
                                     ScaleAll(outcome.events, scaling_factor))
                       /\ UNCHANGED enumerate_warnings
                  ELSE /\ enumerate_warnings' = enumerate_warnings \cup {annotation.name}
                       /\ UNCHANGED enumerate_result
               /\ UNCHANGED enumerate_pc
    /\ UNCHANGED <<notAnnotate, possible_mutations, filter_for_id, inputVars,
                   classifyVars>>

\* line 53, and main.rs line 216: the result is the possible mutations
EnumerateReturn ==
    /\ enumerate_pc = "annotations"
    /\ enumerate_index > Len(annotations)
    /\ possible_mutations' = enumerate_result
    /\ enumerate_pc' = "returned"
    /\ UNCHANGED <<notAnnotate, filter_for_id, inputVars, classifyVars,
                   enumerate_index, enumerate_result, enumerate_warnings>>

(***************************************************************************)
(* observed.rs: classify_mutations                                         *)
(***************************************************************************)
\* line 46: a mutation as Mutation::new builds it
Mutation(region, chromosome, position, ref, alt) ==
    [region |-> region, chromosome |-> chromosome, position |-> position,
     mutation_type |-> "Unknown", change |-> NewChange(ref, alt)]

\* lines 49-54
ref_base(mutation) == mutation.change.from[1]

\* a point mutation whose alternative base is taken from the wrong field
alt_base_of_ref(mutation) ==
    IF mutation.change.kind = "PointMutation" THEN Some(mutation.change.from[1])
    ELSE Nothing
\* lines 56-62
alt_base(mutation) ==
    IF mutation.change.kind = "PointMutation" THEN Some(mutation.change.to[1])
    ELSE Nothing

\* line 145
flank == 2

\* lines 257-270
RECURSIVE filter_observed_mutations(_, _, _)
filter_observed_mutations(muts, chr, genomic_region) ==
    IF muts = <<>> THEN <<>>
    ELSE LET rest == filter_observed_mutations(Tail(muts), chr, genomic_region)
         IN IF muts[1].chromosome = chr /\ contains(genomic_region, muts[1].position)
            THEN <<muts[1]>> \o rest ELSE rest

\* lines 168-172: the five bases around the mutation
sequence_context(seq, annotation, mutation) ==
    LET middle == mutation.position - annotation.range.start + flank
    IN SubSeq(seq, middle - flank + 1, middle + flank + 1)

\* the class of the position alone, the codon rules never consulted
ClassOfPointMutation_by_position_only(annotation, mutation, context, overlapping_intron) ==
    classify_by_position(mutation.position, context, overlapping_intron)

\* lines 180-198: the class of a point mutation
ClassOfPointMutation(annotation, mutation, context, overlapping_intron) ==
    LET by_position ==
            classify_by_position(mutation.position, context, overlapping_intron)
        overlapping_cds == find_cds(annotation, mutation.position)
    IN IF by_position = "Unknown" /\ overlapping_cds # Nothing
       THEN classify_coding_mutation(annotation, mutation.position, context,
                                     alt_base(mutation)[1], overlapping_cds[1])
       ELSE by_position

\* lines 199-210: the class of an indel
ClassOfIndel(annotation, mutation) ==
    IF find_cds(annotation, mutation.position + 1) # Nothing
    THEN IF is_frameshift(mutation.change) THEN "FrameshiftIndel" ELSE "InFrameIndel"
    ELSE "Intronic"

\* lines 147-166: the next annotation: its sequence and its mutations
ClassifyAnnotation ==
    /\ classify_pc = "annotations"
    /\ enumerate_pc \in {"returned", "failed", "panicked"}
    /\ classify_index <= Len(annotations)
    /\ LET annotation == annotations[classify_index]
           start == annotation.range.start - flank
           stop == annotation.range.stop + flank
           relevant == filter_observed_mutations(classify_observed_mutations,
                                                 annotation.chr, annotation.range)
       IN IF filter_for_id # None /\ filter_for_id # annotation.name
          THEN /\ classify_index' = classify_index + 1
               /\ UNCHANGED <<classify_pc, seq_of_region, relevant_mutations>>
          ELSE IF annotation.range.start < flank
          THEN /\ classify_pc' \in {"panicked", "failed"}
               /\ UNCHANGED <<classify_index, seq_of_region, relevant_mutations>>
          ELSE IF ~SequenceOk(annotation.chr, start, stop)
          THEN /\ classify_pc' = "failed"
               /\ UNCHANGED <<classify_index, seq_of_region, relevant_mutations>>
          ELSE /\ seq_of_region' = Sequence(annotation.chr, start, stop)
               /\ relevant_mutations' = relevant
               /\ IF relevant = <<>>
                  THEN classify_index' = classify_index + 1 /\ UNCHANGED classify_pc
                  ELSE classify_pc' = "mutations" /\ UNCHANGED classify_index
    /\ UNCHANGED <<notAnnotate, paramVars, inputVars, enumerateVars, classified>>

\* lines 167-213: the next relevant mutation of the annotation
ClassifyMutation ==
    /\ classify_pc = "mutations"
    /\ LET annotation == annotations[classify_index]
           mutation == relevant_mutations[1]
           context == sequence_context(seq_of_region, annotation, mutation)
           overlapping_intron == find_intron(annotation, mutation.position)
           class ==
               IF mutation.change.kind = "PointMutation"
               THEN ClassOfPointMutation(annotation, mutation, context,
                                         overlapping_intron)
               ELSE ClassOfIndel(annotation, mutation)
           classified_mutation ==
               [mutation EXCEPT !.region = annotation.name,
                                !.mutation_type = class]
       IN IF context[3] # ref_base(mutation)
          THEN /\ classify_pc' = "panicked"
               /\ UNCHANGED <<classify_index, relevant_mutations, classified>>
          ELSE /\ classified' = Append(classified, classified_mutation)
               /\ relevant_mutations' = Tail(relevant_mutations)
               /\ IF Len(relevant_mutations) = 1
                  THEN classify_pc' = "annotations" /\ classify_index' = classify_index + 1
                  ELSE UNCHANGED <<classify_pc, classify_index>>
    /\ UNCHANGED <<notAnnotate, paramVars, inputVars, enumerateVars, seq_of_region>>

\* line 215
ClassifyReturn ==
    /\ classify_pc = "annotations"
    /\ classify_index > Len(annotations)
    /\ classify_pc' = "returned"
    /\ UNCHANGED <<notAnnotate, paramVars, inputVars, enumerateVars, classify_index,
                   seq_of_region, relevant_mutations, classified>>

AnnotateNext ==
    \/ EnumerateAnnotation
    \/ EnumerateReturn
    \/ ClassifyAnnotation
    \/ ClassifyMutation
    \/ ClassifyReturn

(***************************************************************************)
(* The genomes, annotations and observed mutations drawn                   *)
(***************************************************************************)
Chromosome1 ==
    <<"C", "A", "G", "T", "A", "T", "G", "T", "A", "A", "G", "C", "A", "T", "G", "C">>
Chromosome2 ==
    <<"G", "T", "N", "A", "T", "A", "A", "C", "T", "G", "A", "T", "C", "A", "G">>
Genomes == {[chr \in {"chr1"} |-> Chromosome1], [chr \in {"chr1"} |-> Chromosome2]}

\* one exon with a CDS of three bases between two untranslated bases
OneExon(name, start, strand, phase) ==
    SeqAnnotation(name, "chr1", Interval(start, start + 5), strand,
                  <<Interval(start, start + 5)>>,
                  <<CDS(Interval(start + 1, start + 4), phase)>>)
\* two coding exons of two bases around an intron of five, in the order of
\* transcription
TwoExons(name, start, strand, phase) ==
    LET first == Interval(start, start + 2)
        second == Interval(start + 7, start + 9)
        next_phase == (phase + 2) % 3
    IN SeqAnnotation(name, "chr1", Interval(start, start + 9), strand,
                     IF strand = "Plus" THEN <<first, second>> ELSE <<second, first>>,
                     IF strand = "Plus"
                     THEN <<CDS(first, phase), CDS(second, next_phase)>>
                     ELSE <<CDS(second, phase), CDS(first, next_phase)>>)
Strands == {"Plus", "Minus"}
Phases == 0..2
Starts == {2, 3}
Annotations ==
    {OneExon("r1", start, strand, phase) :
         start \in Starts, strand \in Strands, phase \in Phases}
    \cup {TwoExons("r1", start, strand, phase) :
         start \in Starts, strand \in Strands, phase \in Phases}
\* one annotation without a filter, or two with and without
Runs ==
    {<<<<a>>, None>> : a \in Annotations}
        \cup {<<<<a, OneExon("r2", 3, "Plus", 0)>>, id>> :
                  a \in {b \in Annotations : b.coding_sequences[1].phase = 0},
                  id \in {None, "r2"}}

\* the oracle and the scaling factor
Oracles == {<<[radius |-> 2], One>>, <<[radius |-> 3], Half>>}

\* the observed mutations of one position of a chromosome: every point
\* mutation of the reference base, one with a wrong reference base, the
\* deletions of the bases behind it and the insertions behind it
Repeat(base, n) == [i \in 1..n |-> base]
MutationsAt(chromosome, position) ==
    LET ref == chromosome[position + 1]
        point == {Mutation(None, "chr1", position, <<ref>>, <<alt>>) :
                      alt \in BaseSet \ {ref}}
        wrong == {Mutation(None, "chr1", position, <<complement(ref)>>, <<ref>>)}
        deletion == {Mutation(None, "chr1", position,
                              SubSeq(chromosome, position + 1, position + n), <<ref>>) :
                         n \in {m \in 2..MaxAlleleLen : position + m <= Len(chromosome)}}
        insertion == {Mutation(None, "chr1", position, <<ref>>,
                               <<ref>> \o Repeat("A", n - 1)) : n \in 2..MaxAlleleLen}
    IN point \cup wrong \cup deletion \cup insertion
ObservedLists(chromosome, range) ==
    LET inside == UNION {MutationsAt(chromosome, position) :
                             position \in range.start..(range.stop - 1)}
        elsewhere == Mutation(None, "chr2", range.start, <<"A">>, <<"C">>)
        outside == Mutation(None, "chr1", range.stop, <<chromosome[range.stop + 1]>>,
                            <<"N">>)
    IN {<<>>} \cup {<<m>> : m \in inside}
           \cup {<<elsewhere, m, outside>> : m \in MutationsAt(chromosome, range.start + 1)}

AnnotateInit ==
    /\ genome \in Genomes
    /\ \E run \in Runs : annotations = run[1] /\ filter_for_id = run[2]
    /\ \E oracle \in Oracles : mutation_rates = oracle[1] /\ scaling_factor = oracle[2]
    /\ drop_nan = TRUE
    /\ classify_observed_mutations \in
           ObservedLists(genome["chr1"], annotations[1].range)
    /\ possible_mutations = EmptyMap
    /\ enumerate_pc = "annotations"
    /\ enumerate_index = 1
    /\ enumerate_result = EmptyMap
    /\ enumerate_warnings = {}
    /\ classify_pc = "annotations"
    /\ classify_index = 1
    /\ seq_of_region = <<>>
    /\ relevant_mutations = <<>>
    /\ classified = <<>>

\* neither the enumerator nor the classifier runs
AnnotateIdle ==
    /\ genome = EmptyMap
    /\ annotations = <<>>
    /\ mutation_rates = [radius |-> 2]
    /\ scaling_factor = One
    /\ drop_nan = TRUE
    /\ classify_observed_mutations = <<>>
    /\ enumerate_pc = "idle"
    /\ enumerate_index = 1
    /\ enumerate_result = EmptyMap
    /\ enumerate_warnings = {}
    /\ classify_pc = "idle"
    /\ classify_index = 1
    /\ seq_of_region = <<>>
    /\ relevant_mutations = <<>>
    /\ classified = <<>>

(***************************************************************************)
(* The artifacts on disk.  A file is the sequence of its lines; a line of  *)
(* a tab-separated file is the sequence of its fields, and a field or a    *)
(* line of text is a string, a sequence of characters.                     *)
(***************************************************************************)
\* the characters of the region and chromosome names of the model
Names ==
    [r1 |-> <<"r", "1">>, r2 |-> <<"r", "2">>,
     chr1 |-> <<"c", "h", "r", "1">>, chr2 |-> <<"c", "h", "r", "2">>]
CharsOf(name) == Names[name]
NameOf(chars) ==
    IF \E name \in DOMAIN Names : Names[name] = chars
    THEN CHOOSE name \in DOMAIN Names : Names[name] = chars
    ELSE "?"

\* the orders in which a HashMap may iterate over its keys
KeyOrders(keys) ==
    {order \in [1..Cardinality(keys) -> keys] :
         \A i, j \in 1..Cardinality(keys) : i # j => order[i] # order[j]}

\* the Result of a read_from_file
NotRead == [state |-> "none", value |-> <<>>]
ReadOk(value) == [state |-> "Ok", value |-> value]
ReadErr == [state |-> "Err", value |-> <<>>]

\* the mutation types that sample.rs and expect.rs have a CSVRow field for,
\* in the order of the fields after region
ColumnTypes ==
    <<"Unknown", "Synonymous", "Missense", "Nonsense", "StartCodon", "StopLoss",
      "SpliceSite">>
ColumnTypeSet == {ColumnTypes[i] : i \in 1..Len(ColumnTypes)}
\* the header the csv writer puts before the first record
CSVHeader ==
    <<"region", "unknown", "synonymous", "missense", "nonsense", "start_codon",
      "stop_loss", "splice_site">>

(***************************************************************************)
(* sample.rs: write_to_file and read_from_file                             *)
(***************************************************************************)
\* lines 104-117: the row of one region.  The row starts as Default (every
\* field the empty string); the match has an arm, and CSVRow a field, for
\* the seven ColumnTypes only.
SampleCSVRow(region, region_distributions) ==
    <<CharsOf(region)>> \o
        [i \in 1..Len(ColumnTypes) |->
            IF ColumnTypes[i] \in DOMAIN region_distributions
            THEN to_string(region_distributions[ColumnTypes[i]])
            ELSE <<>>]

\* lines 97-121: one record per region, in the order of the HashMap
SampleFile(sampled_mutations, order) ==
    IF DOMAIN sampled_mutations = {} THEN <<>>
    ELSE <<CSVHeader>> \o
             [i \in 1..Len(order) |->
                 SampleCSVRow(order[i], sampled_mutations[order[i]])]

\* lines 133-149: every field but region becomes a DefaultCounter by
\* try_into()?, and all seven are inserted
SampleRowOk(row) == \A i \in 1..Len(ColumnTypes) : try_from(row[i + 1]).ok
SampleRowDistributions(row) ==
    [ty \in ColumnTypeSet |->
        try_from(row[1 + CHOOSE i \in 1..Len(ColumnTypes) : ColumnTypes[i] = ty]).values]

\* lines 123-153
RECURSIVE SampleInsertRows(_, _)
SampleInsertRows(result, records) ==
    IF records = <<>> THEN ReadOk(result)
    ELSE IF ~SampleRowOk(Head(records)) THEN ReadErr
    ELSE SampleInsertRows(Insert(result, NameOf(Head(records)[1]),
                                 SampleRowDistributions(Head(records))),
                          Tail(records))
SampleRead(lines) ==
    IF lines = <<>> THEN ReadOk(EmptyMap) ELSE SampleInsertRows(EmptyMap, Tail(lines))

\* the histograms a sampling leaves: of zero samplings, of one, of twelve
FileCounters == {<<>>, <<1>>, <<0, 12>>}
\* the classes a region has a distribution for
FileClasses ==
    {{}, {"Synonymous"}, ColumnTypeSet \ {"Unknown"}, ColumnTypeSet,
     ColumnTypeSet \cup {"Intronic"}, MutationTypeSet}
RegionDistributions ==
    UNION {[classes -> {c}] : classes \in FileClasses, c \in FileCounters \ {<<>>}}
        \cup {[ty \in ColumnTypeSet |-> IF ty = "Missense" THEN <<0, 12>> ELSE c] :
                  c \in FileCounters}
SampledArtifacts ==
    UNION {[names -> RegionDistributions] : names \in SUBSET Regions}

SampleWriteToFile ==
    /\ artifact = "sampled" /\ file_pc = "start"
    /\ \E order \in KeyOrders(DOMAIN written) : file' = SampleFile(written, order)
    /\ file_pc' = "written"
    /\ UNCHANGED <<artifact, written, read_back, notFiles>>

SampleReadFromFile ==
    /\ artifact = "sampled" /\ file_pc = "written"
    /\ read_back' = SampleRead(file)
    /\ file_pc' = "read"
    /\ UNCHANGED <<artifact, written, file, notFiles>>

(***************************************************************************)
(* The text of an f32.  A value of the model is an integer multiple of     *)
(* 2^-25, so its decimal expansion ends; for the values the files of the   *)
(* model hold, that expansion is also the shortest text that parses back   *)
(* to the value, which is what Display and the csv serializer write.       *)
(***************************************************************************)
\* the digits after the point of remainder / One, by long division
RECURSIVE FractionDigits(_)
FractionDigits(remainder) ==
    IF remainder = 0 THEN <<>>
    ELSE <<Digits[((10 * remainder) \div One) + 1]>>
             \o FractionDigits((10 * remainder) % One)

\* Display for f32: "1", "0.25"
DisplayF32(x) ==
    NatToString(x \div One)
        \o (IF x % One = 0 THEN <<>> ELSE <<".">> \o FractionDigits(x % One))

\* the csv serializer's text of an f32: "1.0", "0.25"
SerializeF32(x) ==
    NatToString(x \div One) \o <<".">>
        \o (IF x % One = 0 THEN <<"0">> ELSE FractionDigits(x % One))

\* the value of the digits after the point, from the last digit to the first
RECURSIVE FractionValue(_)
FractionValue(s) ==
    IF s = <<>> THEN 0
    ELSE (DigitValue(Head(s)) * One + FractionValue(Tail(s))) \div 10

\* str::parse::<f32> of a decimal without sign or exponent
ParseF32(s) ==
    LET parts == Split(s, ".")
        digits == IF Len(parts) = 2 THEN parts[1] \o parts[2] ELSE parts[1]
    IN IF Len(parts) <= 2 /\ digits # <<>> /\ \A i \in 1..Len(digits) : IsDigit(digits[i])
       THEN [ok |-> TRUE,
             value |-> DigitsValue(parts[1]) * One
                           + (IF Len(parts) = 2 THEN FractionValue(parts[2]) ELSE 0)]
       ELSE [ok |-> FALSE, value |-> 0]

(***************************************************************************)
(* expect.rs: write_to_file and read_from_file                             *)
(***************************************************************************)
\* lines 75-84: the CSVRow of one region, its eight fields serialized
ExpectCSVRow(region, c) ==
    <<CharsOf(region)>> \o
        [i \in 1..Len(ColumnTypes) |-> SerializeF32(get(c, ColumnTypes[i]))]

\* lines 66-89
ExpectFile(expected_mutations, order) ==
    IF DOMAIN expected_mutations = {} THEN <<>>
    ELSE <<CSVHeader>> \o
             [i \in 1..Len(order) |->
                 ExpectCSVRow(order[i], expected_mutations[order[i]])]

\* line 98: the row deserializes when each of its seven counts is a float
ExpectRowOk(row) == \A i \in 1..Len(ColumnTypes) : ParseF32(row[i + 1]).ok
\* lines 99-107: the counts are built from the seven fields of the row; a
\* count the row has no field for is the Default of its type
ExpectRowCounts(row) ==
    [ty \in MutationTypeSet |->
        IF ty \in ColumnTypeSet
        THEN ParseF32(row[1 + CHOOSE i \in 1..Len(ColumnTypes) : ColumnTypes[i] = ty]).value
        ELSE DefaultCounts[ty]]

\* lines 91-110
RECURSIVE ExpectInsertRows(_, _)
ExpectInsertRows(result, records) ==
    IF records = <<>> THEN ReadOk(result)
    ELSE IF ~ExpectRowOk(Head(records)) THEN ReadErr
    ELSE ExpectInsertRows(Insert(result, NameOf(Head(records)[1]),
                                 ExpectRowCounts(Head(records))),
                          Tail(records))
ExpectRead(lines) ==
    IF lines = <<>> THEN ReadOk(EmptyMap) ELSE ExpectInsertRows(EmptyMap, Tail(lines))

\* the expected counts of a region: none, one per class with a column, and
\* the same with a count of a class the enumerator and the classifier give
\* to intronic positions and to indels
ColumnCounts ==
    [ty \in MutationTypeSet |->
        IF ty \in ColumnTypeSet
        THEN Quarter * (CHOOSE i \in 1..Len(ColumnTypes) : ColumnTypes[i] = ty)
        ELSE 0]
FileCounts ==
    {DefaultCounts, ColumnCounts, [DefaultCounts EXCEPT !["Missense"] = 12 * One],
     [ColumnCounts EXCEPT !["Intronic"] = Half],
     [DefaultCounts EXCEPT !["InFrameIndel"] = One, !["FrameshiftIndel"] = One + Quarter]}
ExpectedArtifacts == UNION {[names -> FileCounts] : names \in SUBSET Regions}

ExpectWriteToFile ==
    /\ artifact = "expected" /\ file_pc = "start"
    /\ \E order \in KeyOrders(DOMAIN written) : file' = ExpectFile(written, order)
    /\ file_pc' = "written"
    /\ UNCHANGED <<artifact, written, read_back, notFiles>>

ExpectReadFromFile ==
    /\ artifact = "expected" /\ file_pc = "written"
    /\ read_back' = ExpectRead(file)
    /\ file_pc' = "read"
    /\ UNCHANGED <<artifact, written, file, notFiles>>

(***************************************************************************)
(* enumerate.rs: write_to_file and read_from_file                          *)
(***************************************************************************)
\* the numeric code of a mutation type, and the type of a code
TypeCode(ty) == (CHOOSE i \in 1..Len(MutationTypes) : MutationTypes[i] = ty) - 1
TypeOfCode(code) == IF code < Len(MutationTypes) THEN MutationTypes[code + 1] ELSE "Unknown"

\* str::parse::<u8>
ParseU8(s) ==
    IF ParseUsize(s).ok /\ ParseUsize(s).value <= 255 THEN ParseUsize(s)
    ELSE [ok |-> FALSE, value |-> 0]

\* lines 63-69: the line of one event, "{type as usize}:{probability}"
EventLine(mutation) ==
    NatToString(TypeCode(mutation.mutation_type)) \o <<":">>
        \o DisplayF32(mutation.probability)

\* lines 61-70: the "#name" line of a region and the lines of its events
RegionLines_without_empty(name, region_mutations) ==
    IF region_mutations = <<>> THEN <<>>
    ELSE <<<<"#">> \o CharsOf(name)>>
             \o [i \in 1..Len(region_mutations) |-> EventLine(region_mutations[i])]
RegionLines(name, region_mutations) ==
    <<<<"#">> \o CharsOf(name)>>
        \o [i \in 1..Len(region_mutations) |-> EventLine(region_mutations[i])]

\* lines 56-74: the blocks of the regions, in the order of the HashMap
RECURSIVE PossibleFile(_, _)
PossibleFile(table, order) ==
    IF order = <<>> THEN <<>>
    ELSE RegionLines(Head(order), table[Head(order)]) \o PossibleFile(table, Tail(order))

\* a thread that panicked returns nothing
ReadPanic == [state |-> "panic", value |-> <<>>]

\* an Err of read_from_file with the text of the error: whether it names
\* the file, and the line number it names, if any
ReadError(message, names_file, line_number) ==
    [state |-> "Err", value |-> <<>>, message |-> message,
     names_file |-> names_file, line_number |-> line_number]
\* lines 89-94: the ParseError of crate::error
ExpectedNameLine(line_no) ==
    ReadError("Expected #name line on line {} in file {}", TRUE, Some(line_no + 1))
\* lines 97, 98: the errors of str::parse, passed on by `?` as they are
ParseIntError == ReadError("invalid digit found in string", FALSE, Nothing)
ParseFloatError == ReadError("invalid float literal", FALSE, Nothing)

\* lines 82-109: the loop over the lines; current_gene is the Option of the
\* last "#name" line, line_no counts from 0
RECURSIVE PossibleReadLines(_, _, _, _)
PossibleReadLines(result, current_gene, lines, line_no) ==
    IF lines = <<>> THEN ReadOk(result)
    ELSE LET line == Head(lines)
             tokens == Split(line, ":")
         IN IF line # <<>> /\ line[1] = "#"
            THEN PossibleReadLines(Insert(result, NameOf(Tail(line)), <<>>),
                                   <<NameOf(Tail(line))>>, Tail(lines), line_no + 1)
            ELSE IF current_gene = <<>> THEN ExpectedNameLine(line_no)
            ELSE IF ~ParseU8(tokens[1]).ok THEN ParseIntError
            ELSE IF Len(tokens) < 2 THEN ReadPanic
            ELSE IF ~ParseF32(tokens[2]).ok THEN ParseFloatError
            ELSE PossibleReadLines(
                     [result EXCEPT ![current_gene[1]] =
                         Append(@, MutationEvent(TypeOfCode(ParseU8(tokens[1]).value),
                                                 ParseF32(tokens[2]).value))],
                     current_gene, Tail(lines), line_no + 1)

\* lines 76-114
PossibleRead(lines) == PossibleReadLines(EmptyMap, <<>>, lines, 0)

\* the event lists of a region: none, one event, several of them with
\* the same and with different types and probabilities
FileEvents ==
    {<<>>,
     <<MutationEvent("Synonymous", Quarter)>>,
     <<MutationEvent("SpliceSite", Half), MutationEvent("SpliceSite", Half)>>,
     <<MutationEvent("FrameshiftIndel", One), MutationEvent("Unknown", 0),
       MutationEvent("Missense", Quarter \div 2), MutationEvent("Intronic", Half + Quarter)>>}
PossibleArtifacts == UNION {[names -> FileEvents] : names \in SUBSET Regions}

PossibleWriteToFile ==
    /\ artifact = "possible" /\ file_pc = "start"
    /\ \E order \in KeyOrders(DOMAIN written) : file' = PossibleFile(written, order)
    /\ file_pc' = "written"
    /\ UNCHANGED <<artifact, written, read_back, notFiles>>

\* files of possible mutations that were not written by write_to_file: every
\* sequence of at most MaxLines of these lines
MaxLines == 3
PossibleLines ==
    {<<"#", "r", "1">>,
     <<"1", ":", "0", ".", "5">>,
     <<"1">>,
     <<"x">>,
     <<"x", ":", "0", ".", "5">>,
     <<"1", ":", "x">>,
     <<>>}
PossibleInputFiles == UNION {[1..n -> PossibleLines] : n \in 0..MaxLines}

PossibleReadFromFile ==
    /\ artifact \in {"possible", "possible-input"} /\ file_pc = "written"
    /\ read_back' = PossibleRead(file)
    /\ file_pc' = "read"
    /\ UNCHANGED <<artifact, written, file, notFiles>>

(***************************************************************************)
(* observed.rs: Serialize and Deserialize for Change, write_to_file and    *)
(* read_from_file                                                          *)
(***************************************************************************)
\* str::split("->"): the pieces between the arrows
RECURSIVE SplitArrow(_)
SplitArrow(s) ==
    LET arrows == {i \in 1..(Len(s) - 1) : s[i] = "-" /\ s[i + 1] = ">"}
    IN IF arrows = {} THEN <<s>>
       ELSE LET i == CHOOSE j \in arrows : \A h \in arrows : j <= h
            IN <<SubSeq(s, 1, i - 1)>> \o SplitArrow(SubSeq(s, i + 2, Len(s)))

\* lines 78-97: Serialize for Change, from "->" to
serialize(c) == c.from \o <<"-", ">">> \o c.to

\* lines 115-130: ChangeVisitor::visit_str
visit_str_always_indel(v) ==
    LET parts == SplitArrow(v)
    IN IF Len(parts) # 2 THEN [ok |-> FALSE, value |-> NoChange]
       ELSE [ok |-> TRUE, value |-> Indel(parts[1], parts[2])]
visit_str(v) ==
    LET parts == SplitArrow(v)
    IN IF Len(parts) # 2 THEN [ok |-> FALSE, value |-> NoChange]
       ELSE IF Len(parts[1]) > 1 \/ Len(parts[2]) > 1
       THEN [ok |-> TRUE, value |-> Indel(parts[1], parts[2])]
       ELSE IF parts[1] = <<>> \/ parts[2] = <<>>
       THEN [ok |-> TRUE, value |-> Panicked]
       ELSE [ok |-> TRUE, value |-> PointMutation(<<parts[1][1]>>, <<parts[2][1]>>)]

\* the field of an Option<String>: None is the empty field, and the empty
\* field is None
SerializeRegion(region) == IF region = None THEN <<>> ELSE CharsOf(region)
DeserializeRegion(field) == IF field = <<>> THEN None ELSE NameOf(field)

\* the header of the derived Serialize of Mutation (lines 18-25)
MutationHeader == <<"region", "chromosome", "position", "mutation_type", "change">>

\* lines 18-25: the record of a Mutation; the text of the mutation type is
\* the name of its variant
MutationRow(mutation) ==
    <<SerializeRegion(mutation.region), CharsOf(mutation.chromosome),
      NatToString(mutation.position), <<mutation.mutation_type>>,
      serialize(mutation.change)>>

\* lines 274-284
ObservedFile(annotated_mutations) ==
    IF annotated_mutations = <<>> THEN <<>>
    ELSE <<MutationHeader>> \o
             [i \in 1..Len(annotated_mutations) |-> MutationRow(annotated_mutations[i])]

\* lines 18-25: the derived Deserialize of Mutation
MutationRowOk(row) ==
    /\ ParseUsize(row[3]).ok
    /\ Len(row[4]) = 1 /\ row[4][1] \in MutationTypeSet
    /\ visit_str(row[5]).ok
MutationOfRow(row) ==
    [region |-> DeserializeRegion(row[1]), chromosome |-> NameOf(row[2]),
     position |-> ParseUsize(row[3]).value, mutation_type |-> row[4][1],
     change |-> visit_str(row[5]).value]

\* lines 318-330
RECURSIVE ObservedPushRows(_, _)
ObservedPushRows(result, records) ==
    IF records = <<>> THEN ReadOk(result)
    ELSE IF ~MutationRowOk(Head(records)) THEN ReadErr
    ELSE IF MutationOfRow(Head(records)).change = Panicked THEN ReadPanic
    ELSE ObservedPushRows(Append(result, MutationOfRow(Head(records))), Tail(records))
ObservedRead(lines) ==
    IF lines = <<>> THEN ReadOk(<<>>) ELSE ObservedPushRows(<<>>, Tail(lines))

\* the mutations of a list: as Mutation::new builds them (no class yet,
\* with and without a region), and as classify_mutations leaves them
FileAlleles ==
    {<<<<"A">>, <<"C">>>>, <<<<"A", "C">>, <<"A">>>>, <<<<"A">>, <<"A", "C", "C">>>>,
     <<<<"A", "C">>, <<"C", "A">>>>}
FileClassOf(c) ==
    IF c.kind = "PointMutation" THEN {"Unknown", "Missense", "Intronic"}
    ELSE {"Unknown", "InFrameIndel", "FrameshiftIndel"}
FileMutations ==
    UNION {{[Mutation(region, "chr1", position, alleles[1], alleles[2])
                 EXCEPT !.mutation_type = class] :
                class \in IF region = None THEN {"Unknown"}
                          ELSE FileClassOf(NewChange(alleles[1], alleles[2]))} :
           region \in {None, "r1"}, position \in {0, 12}, alleles \in FileAlleles}
ObservedArtifacts == {<<>>} \cup {<<m>> : m \in FileMutations}
                         \cup {<<m, n>> : m \in FileMutations, n \in FileMutations}

ObservedWriteToFile ==
    /\ artifact = "observed" /\ file_pc = "start"
    /\ file' = ObservedFile(written)
    /\ file_pc' = "written"
    /\ UNCHANGED <<artifact, written, read_back, notFiles>>

ObservedReadFromFile ==
    /\ artifact = "observed" /\ file_pc = "written"
    /\ read_back' = ObservedRead(file)
    /\ file_pc' = "read"
    /\ UNCHANGED <<artifact, written, file, notFiles>>

(***************************************************************************)
(* observed.rs: read_mutations_from_file, which reads the observed         *)
(* mutations the user gives: lines of the fields chr, pos, ref, alt.       *)
(***************************************************************************)
\* str::parse::<i64> of a number that fits
ParseI64(s) ==
    LET signed == s # <<>> /\ s[1] \in {"-", "+"}
        digits == ParseUsize(IF signed THEN Tail(s) ELSE s)
    IN [ok |-> digits.ok,
        value |-> IF s # <<>> /\ s[1] = "-" THEN 0 - digits.value ELSE digits.value]

\* a usize of 64 bits as its four digits to the base 2^16, the highest first
Limb == 65536
UsizeOf(n) == <<0, 0, n \div Limb, n % Limb>>
\* `value as usize` of an i64: the value modulo 2^64, for a negative value
\* the complement of -value - 1
AsUsize(value) ==
    IF value >= 0 THEN UsizeOf(value)
    ELSE <<Limb - 1, Limb - 1, Limb - 1 - ((0 - value - 1) \div Limb),
           Limb - 1 - ((0 - value - 1) % Limb)>>

\* lines 230-233: the ParseError of a line with too few fields
BadFormat(line_number) ==
    ReadError("Bad format in line {}. Expecting at least 4 instead of {} tab-delimited fields: chr, pos, ref, alt",
              FALSE, Some(line_number))

\* lines 228-251: the loop over the records; tabfile skips the lines that
\* begin with the comment character and counts them
RECURSIVE ReadMutationLines(_, _, _, _)
ReadMutationLines(mutation_list, lines, line_number, adjust) ==
    IF lines = <<>> THEN ReadOk(mutation_list)
    ELSE LET fields == Split(Head(lines), " ")
             value == ParseI64(fields[2])
         IN IF Head(lines)[1] = "#"
            THEN ReadMutationLines(mutation_list, Tail(lines), line_number + 1, adjust)
            ELSE IF Len(fields) < 4 THEN BadFormat(line_number)
            ELSE IF ~value.ok THEN ParseIntError
            ELSE ReadMutationLines(
                     Append(mutation_list,
                            Mutation(None, NameOf(fields[1]), AsUsize(value.value + adjust),
                                     fields[3], fields[4])),
                     Tail(lines), line_number + 1, adjust)

\* lines 218-255
read_mutations_from_file(lines, adjust) == ReadMutationLines(<<>>, lines, 1, adjust)

\* main.rs lines 180-183
read_observed_mutations_from_file(lines) == read_mutations_from_file(lines, 0 - 1)

\* the files drawn: every sequence of at most MaxLines of these lines
ObservedLine(pos, ref, alt) ==
    <<"c", "h", "r", "1", " ">> \o pos \o <<" ">> \o ref \o <<" ">> \o alt
ObservedLines ==
    {<<"#", "c">>,
     ObservedLine(<<"5">>, <<"A">>, <<"C">>),
     ObservedLine(<<"1">>, <<"A", "C">>, <<"A">>),
     ObservedLine(<<"0">>, <<"A">>, <<"C">>),
     ObservedLine(<<"-", "3">>, <<"A">>, <<"C">>),
     ObservedLine(<<"x">>, <<"A">>, <<"C">>),
     <<"c", "h", "r", "1", " ", "5", " ", "A">>}
ObservedInputFiles == UNION {[1..n -> ObservedLines] : n \in 0..MaxLines}

ReadObservedMutationsFromFile ==
    /\ artifact = "observed-input" /\ file_pc = "written"
    /\ read_back' = read_observed_mutations_from_file(file)
    /\ file_pc' = "read"
    /\ UNCHANGED <<artifact, written, file, notFiles>>

(***************************************************************************)
(* One artifact, written and read back.                                    *)
(***************************************************************************)
FilesInit ==
    /\ \/ artifact = "sampled" /\ written \in SampledArtifacts
       \/ artifact = "expected" /\ written \in ExpectedArtifacts
       \/ artifact = "possible" /\ written \in PossibleArtifacts
       \/ artifact = "observed" /\ written \in ObservedArtifacts
       \/ artifact = "possible-input" /\ written = <<>>
       \/ artifact = "observed-input" /\ written = <<>>
    /\ IF artifact = "possible-input"
       THEN file \in PossibleInputFiles /\ file_pc = "written"
       ELSE IF artifact = "observed-input"
       THEN file \in ObservedInputFiles /\ file_pc = "written"
       ELSE file = <<>> /\ file_pc = "start"
    /\ read_back = NotRead

FilesNext ==
    \/ SampleWriteToFile
    \/ SampleReadFromFile
    \/ ExpectWriteToFile
    \/ ExpectReadFromFile
    \/ PossibleWriteToFile
    \/ PossibleReadFromFile
    \/ ObservedWriteToFile
    \/ ObservedReadFromFile
    \/ ReadObservedMutationsFromFile

FilesIdle ==
    /\ artifact = "none"
    /\ written = <<>>
    /\ file = <<>>
    /\ read_back = NotRead
    /\ file_pc = "start"

(***************************************************************************)
(* main.rs: the driver.  A run is the sequence of the blocks of main; the  *)
(* steps it calls are those of the sections above, and a run keeps of them *)
(* whether they return Ok or Err.                                          *)
(***************************************************************************)
\* the values of --action that name a step, in the order of the blocks
Actions == <<"transform", "enumerate", "expect", "sample", "classify", "compare">>
ActionSet == {Actions[i] : i \in 1..Len(Actions)}

\* the file flags without a default value
FileFlags ==
    {"gff3", "genome", "point-mutation-probabilities", "observed-mutations",
     "genomic-regions", "possible-mutations", "classified-mutations",
     "expected-mutations", "sampled-mutations"}

\* lines 104-109: --significant-mutations has the default value "-"
FlagsWithValue == flags \cup {"significant-mutations"}

\* what may be the matter with the inputs of a run:
\*   region_out_of_bounds    a region whose range, extended by the radius of
\*                           the oracle, leaves its chromosome
\*   sampled_class_absent    the sampled-mutations file has a region without
\*                           a histogram for one of its seven classes
\*   sampled_region_missing  the sampled-mutations file lacks a region of the
\*                           expected mutations
\*   the others              a file that is not of its format, and a
\*                           --number-of-random-samples that is not a number
Conditions ==
    {"sound", "region_out_of_bounds", "sampled_class_absent", "sampled_region_missing",
     "gff3_malformed", "observed_malformed", "expected_malformed",
     "samples_not_a_number"}

\* line 135
run_all == action = None

\* the step returns Err: transform_gff3_annotations on a malformed file,
\* enumerate_possible_mutations on a fetch out of bounds (enumerate.rs line
\* 34), compare_mutations on a region without sampled mutations (compare.rs
\* lines 26-28) when these were read from the file
StepFails(step) ==
    \/ step = "transform" /\ condition = "gff3_malformed"
    \/ step = "enumerate" /\ condition = "region_out_of_bounds"
    \/ step = "compare" /\ condition = "sampled_region_missing"
           /\ \A i \in 1..Len(steps_run) : steps_run[i] # "sample"

\* read_from_file of the flag returns Err: sample::read_from_file on an
\* empty histogram field (sample.rs lines 134-149), the others on a
\* malformed file
ReadFails(flag) ==
    \/ flag = "sampled-mutations" /\ condition = "sampled_class_absent"
    \/ flag = "expected-mutations" /\ condition = "expected_malformed"
    \/ flag = "observed-mutations" /\ condition = "observed_malformed"

\* main returns, or the thread panics
Exit_to_end(code, what) ==
    /\ exit' = code
    /\ error' = what
    /\ main_pc' = IF code = "Ok" THEN "exited" ELSE "end"
Exit(code, what) ==
    /\ exit' = code
    /\ error' = what
    /\ main_pc' = "exited"

\* lines 28-36: require_initialization of the locals in turn; the index of
\* the first that is None, 0 when all are Some
FirstMissing(requires) ==
    IF \A i \in 1..Len(requires) : requires[i][1] \in loaded THEN 0
    ELSE CHOOSE i \in 1..Len(requires) :
             /\ requires[i][1] \notin loaded
             /\ \A h \in 1..(i - 1) : requires[h][1] \in loaded

\* line 293: possible_mutations is dropped behind the sample block
Kept(step, locals) == IF step = "sample" THEN locals \ {"possible_mutations"} ELSE locals

\* one block of main: with run_all or --action naming the step, the step is
\* called on the locals it requires, its result is written when the flag of
\* its file is given, and a run of that step alone returns; otherwise the
\* result of the step is read when the flag of its file is given
Block(step, next, requires, local, flag, panics, readable) ==
    /\ IF run_all \/ action = step
       THEN IF panics
            THEN /\ Exit("panic", "other")
                 /\ UNCHANGED <<loaded, steps_run, artifacts_written>>
            ELSE IF FirstMissing(requires) # 0
            THEN /\ Exit("Err", requires[FirstMissing(requires)][2])
                 /\ UNCHANGED <<loaded, steps_run, artifacts_written>>
            ELSE /\ steps_run' = Append(steps_run, step)
                 /\ IF StepFails(step)
                    THEN /\ Exit("Err", "other")
                         /\ UNCHANGED <<loaded, artifacts_written>>
                    ELSE /\ artifacts_written' =
                                IF flag \in FlagsWithValue
                                THEN Append(artifacts_written, flag)
                                ELSE artifacts_written
                         /\ IF run_all
                            THEN /\ loaded' = Kept(step, loaded \cup {local})
                                 /\ main_pc' = next
                                 /\ UNCHANGED <<exit, error>>
                            ELSE /\ Exit("Ok", None)
                                 /\ UNCHANGED loaded
       ELSE IF readable /\ flag \in flags
       THEN /\ IF ReadFails(flag)
               THEN Exit("Err", "other") /\ UNCHANGED loaded
               ELSE /\ loaded' = Kept(step, loaded \cup {local})
                    /\ main_pc' = next
                    /\ UNCHANGED <<exit, error>>
            /\ UNCHANGED <<steps_run, artifacts_written>>
       ELSE /\ loaded' = Kept(step, loaded)
            /\ main_pc' = next
            /\ UNCHANGED <<exit, error, steps_run, artifacts_written>>
    /\ UNCHANGED <<action, flags, condition, notMain>>

\* lines 134-187: the genome, the oracle and the observed mutations are
\* opened when their flags are given
MainLoad ==
    /\ main_pc = "load"
    /\ IF "observed-mutations" \in flags /\ ReadFails("observed-mutations")
       THEN Exit("Err", "other") /\ UNCHANGED loaded
       ELSE /\ loaded' =
                   {local \in {"ref_genome", "papa", "observed_mutations"} :
                        \/ local = "ref_genome" /\ "genome" \in flags
                        \/ local = "papa" /\ "point-mutation-probabilities" \in flags
                        \/ local = "observed_mutations" /\ "observed-mutations" \in flags}
            /\ main_pc' = "transform"
            /\ UNCHANGED <<exit, error>>
    /\ UNCHANGED <<action, flags, condition, steps_run, artifacts_written, notMain>>

\* lines 189-213: transform requires the flag --gff3 itself
MainTransform ==
    /\ main_pc = "transform"
    /\ IF (run_all \/ action = "transform") /\ "gff3" \notin flags
       THEN /\ Exit("Err", "--gff3")
            /\ UNCHANGED <<loaded, steps_run, artifacts_written, action, flags,
                           condition, notMain>>
       ELSE Block("transform", "enumerate", <<>>, "regions", "genomic-regions",
                  FALSE, TRUE)

\* lines 215-241
MainEnumerate ==
    /\ main_pc = "enumerate"
    /\ Block("enumerate", "expect",
             <<<<"regions", "--genomic-regions">>, <<"ref_genome", "--genome">>,
               <<"papa", "--point-mutation-probabilities">>>>,
             "possible_mutations", "possible-mutations", FALSE, TRUE)

\* lines 243-262
MainExpect ==
    /\ main_pc = "expect"
    /\ Block("expect", "sample", <<<<"possible_mutations", "--possible-mutations">>>>,
             "expected_mutations", "expected-mutations", FALSE, TRUE)

\* lines 264-293: the number of samples is parsed with unwrap before the
\* possible mutations are required
MainSample ==
    /\ main_pc = "sample"
    /\ Block("sample", "classify", <<<<"possible_mutations", "--possible-mutations">>>>,
             "sampled_mutations", "sampled-mutations",
             condition = "samples_not_a_number", TRUE)

\* lines 295-327
MainClassify ==
    /\ main_pc = "classify"
    /\ Block("classify", "compare",
             <<<<"observed_mutations", "--observed-mutations">>,
               <<"regions", "--genomic-regions">>, <<"ref_genome", "--genome">>>>,
             "classified_mutations", "classified-mutations", FALSE, TRUE)

\* lines 329-350: the last block reads no file
MainCompare ==
    /\ main_pc = "compare"
    /\ Block("compare", "end",
             <<<<"classified_mutations", "--classified-mutations">>,
               <<"expected_mutations", "--expected-mutations">>,
               <<"sampled_mutations", "--sampled-mutations">>>>,
             "significant_mutations", "significant-mutations", FALSE, FALSE)

\* lines 352-358: a run of one step that came through all blocks had an
\* --action that names no step
MainEnd ==
    /\ main_pc = "end"
    /\ IF ~run_all THEN Exit("Err", "Invalid --action parameter") ELSE Exit("Ok", None)
    /\ UNCHANGED <<action, flags, condition, loaded, steps_run, artifacts_written,
                   notMain>>

MainInit ==
    /\ action \in {None} \cup ActionSet \cup {"transfrom"}
    /\ flags \in SUBSET FileFlags
    /\ condition \in Conditions
    /\ main_pc = "load"
    /\ loaded = {}
    /\ steps_run = <<>>
    /\ artifacts_written = <<>>
    /\ exit = "running"
    /\ error = None

MainNext ==
    \/ MainLoad
    \/ MainTransform
    \/ MainEnumerate
    \/ MainExpect
    \/ MainSample
    \/ MainClassify
    \/ MainCompare
    \/ MainEnd

\* no run
MainIdle ==
    /\ action = None
    /\ flags = {}
    /\ condition = "sound"
    /\ main_pc = "idle"
    /\ loaded = {}
    /\ steps_run = <<>>
    /\ artifacts_written = <<>>
    /\ exit = "running"
    /\ error = None

(***************************************************************************)
(* transform.rs: transform_gff3_annotations.  The file is the sequence of  *)
(* the rows the csv reader deserializes; the ID of a row and its Parent    *)
(* are parsed from its attributes, a string of characters.                 *)
(***************************************************************************)
\* lines 11-22: attributes is an Option, None for an empty column
GFF3Record(seq_id, seq_type, start, end, strand, phase, attributes) ==
    [seq_id |-> seq_id, seq_type |-> seq_type, start |-> start, end |-> end,
     strand |-> strand, phase |-> phase, attributes |-> attributes]

\* str::starts_with
starts_with(s, prefix) ==
    Len(prefix) <= Len(s) /\ SubSeq(s, 1, Len(prefix)) = prefix

\* lines 135-144: the loop over the attributes
RECURSIVE get_attribute_of(_, _)
get_attribute_of(attribute_list, attribute_name) ==
    IF attribute_list = <<>> THEN Nothing
    ELSE LET attribute == Head(attribute_list)
             key_value == Split(attribute, "=")
         IN IF /\ starts_with(attribute, attribute_name)
               /\ ~(Len(key_value) # 2 \/ key_value[1] # attribute_name)
            THEN Some(key_value[2])
            ELSE get_attribute_of(Tail(attribute_list), attribute_name)

\* lines 134-146
get_attribute(attr_str, attribute_name) ==
    get_attribute_of(Split(attr_str, ";"), attribute_name)

ID == <<"I", "D">>
Parent == <<"P", "a", "r", "e", "n", "t">>

\* mutexpect: TryFrom<char> for Strand and for Phase
StrandOf(c) ==
    IF c = "+" THEN Some("Plus") ELSE IF c = "-" THEN Some("Minus") ELSE Nothing
PhaseOf(c) ==
    IF c = "0" THEN Some(0) ELSE IF c = "1" THEN Some(1)
    ELSE IF c = "2" THEN Some(2) ELSE Nothing

\* mutexpect: Interval::new, an error unless start < stop
NewInterval(start, stop) ==
    IF start < stop THEN [state |-> "Ok", interval |-> Interval(start, stop)]
    ELSE [state |-> "Err"]

\* the coordinates of the row taken as they are
RowRanges_one_based(row) == {NewInterval(row.start, row.end)}

\* lines 73, 90, 107: Interval::new(row.start - 1, row.end).  The
\* subtraction is one of usize: at start 0 it panics where overflow is
\* checked and wraps to the largest usize, which is no start, where it is not
RowRanges(row) ==
    IF row.start = 0 THEN {[state |-> "panic"], [state |-> "Err"]}
    ELSE {NewInterval(row.start - 1, row.end)}

\* the Result of the function
NotTransformed == [state |-> "none", value |-> <<>>, message |-> ""]
TransformOk(value) == [state |-> "Ok", value |-> value, message |-> ""]
TransformErr(message) == [state |-> "Err", value |-> <<>>, message |-> message]
TransformPanic == [state |-> "panic", value |-> <<>>, message |-> ""]

NotOrdered == "The gff3 file is not an ordered tree structure"

\* lines 53-60, 120-127
CurrentAnnotation ==
    SeqAnnotation(current_entity_name, current_chromosome, current_range,
                  current_strand, current_exons, current_cdss)

transformLocals ==
    <<current_entity_name, current_chromosome, current_range, current_strand,
      current_exons, current_cdss, transform_result>>

\* a return out of the loop
TransformReturn(value) ==
    /\ transformed' = value
    /\ transform_pc' = "done"
    /\ UNCHANGED <<annotations_file, transform_filter_for_id, row_index, transformLocals,
                 notTransform>>

AtRow(seq_types) ==
    /\ transform_pc = "rows"
    /\ row_index <= Len(annotations_file)
    /\ annotations_file[row_index].seq_type \in seq_types

\* lines 47-77: a transcript row
TransformTranscript ==
    /\ AtRow({"transcript"})
    /\ \E range \in RowRanges(annotations_file[row_index]) :
         LET row == annotations_file[row_index]
             id == get_attribute(row.attributes[1], ID)
             strand == StrandOf(row.strand)
         IN IF row.attributes = Nothing
            THEN TransformReturn(TransformErr("Missing attributes in GFF3 file"))
            ELSE IF id = Nothing
            THEN TransformReturn(TransformErr("missing ID attribute"))
            ELSE IF range.state = "panic" THEN TransformReturn(TransformPanic)
            ELSE IF range.state = "Err"
            THEN TransformReturn(TransformErr("Interval::new"))
            ELSE IF strand = Nothing
            THEN TransformReturn(TransformErr("Strand::try_from"))
            ELSE /\ transform_result' =
                        IF /\ current_entity_name # <<>>
                           /\ (transform_filter_for_id = Nothing
                               \/ transform_filter_for_id[1] = current_entity_name)
                        THEN Append(transform_result, CurrentAnnotation)
                        ELSE transform_result
                 /\ current_entity_name' = id[1]
                 /\ current_chromosome' = row.seq_id
                 /\ current_range' = range.interval
                 /\ current_strand' = strand[1]
                 /\ current_exons' = <<>>
                 /\ current_cdss' = <<>>
                 /\ row_index' = row_index + 1
                 /\ UNCHANGED <<annotations_file, transform_filter_for_id, transformed,
                                transform_pc, notTransform>>

\* lines 47-49, 78-91: an exon row
TransformExon ==
    /\ AtRow({"exon"})
    /\ \E range \in RowRanges(annotations_file[row_index]) :
         LET row == annotations_file[row_index]
             id == get_attribute(row.attributes[1], ID)
             parent == get_attribute(row.attributes[1], Parent)
         IN IF row.attributes = Nothing
            THEN TransformReturn(TransformErr("Missing attributes in GFF3 file"))
            ELSE IF id = Nothing
            THEN TransformReturn(TransformErr("missing ID attribute in GFF3 file"))
            ELSE IF parent = Nothing
            THEN TransformReturn(TransformErr("missing Parent attribute in GFF3 file"))
            ELSE IF parent[1] # current_entity_name
            THEN TransformReturn(TransformErr(NotOrdered))
            ELSE IF range.state = "panic" THEN TransformReturn(TransformPanic)
            ELSE IF range.state = "Err"
            THEN TransformReturn(TransformErr("Interval::new"))
            ELSE /\ current_exons' = Append(current_exons, range.interval)
                 /\ row_index' = row_index + 1
                 /\ UNCHANGED <<annotations_file, transform_filter_for_id, current_entity_name,
                                current_chromosome, current_range, current_strand,
                                current_cdss, transform_result, transformed,
                                transform_pc, notTransform>>

\* lines 47-49, 92-108: a CDS row
TransformCDS ==
    /\ AtRow({"CDS"})
    /\ \E range \in RowRanges(annotations_file[row_index]) :
         LET row == annotations_file[row_index]
             id == get_attribute(row.attributes[1], ID)
             parent == get_attribute(row.attributes[1], Parent)
             phase == PhaseOf(row.phase)
         IN IF row.attributes = Nothing
            THEN TransformReturn(TransformErr("Missing attributes in GFF3 file"))
            ELSE IF id = Nothing
            THEN TransformReturn(TransformErr("missing ID attribute"))
            ELSE IF parent = Nothing
            THEN TransformReturn(TransformErr("missing Parent attribute"))
            ELSE IF parent[1] # current_entity_name
            THEN TransformReturn(TransformErr(NotOrdered))
            ELSE IF phase = Nothing
            THEN TransformReturn(TransformErr("CDS region without a proper phase"))
            ELSE IF range.state = "panic" THEN TransformReturn(TransformPanic)
            ELSE IF range.state = "Err"
            THEN TransformReturn(TransformErr("Interval::new"))
            ELSE /\ current_cdss' = Append(current_cdss, CDS(range.interval, phase[1]))
                 /\ row_index' = row_index + 1
                 /\ UNCHANGED <<annotations_file, transform_filter_for_id, current_entity_name,
                                current_chromosome, current_range, current_strand,
                                current_exons, transform_result, transformed,
                                transform_pc, notTransform>>

\* lines 47-49, 109: a row of another type
TransformOther ==
    /\ transform_pc = "rows"
    /\ row_index <= Len(annotations_file)
    /\ annotations_file[row_index].seq_type \notin {"transcript", "exon", "CDS"}
    /\ IF annotations_file[row_index].attributes = Nothing
       THEN TransformReturn(TransformErr("Missing attributes in GFF3 file"))
       ELSE /\ row_index' = row_index + 1
            /\ UNCHANGED <<annotations_file, transform_filter_for_id, transformLocals,
                           transformed, transform_pc, notTransform>>

\* lines 112-131: after the last row
TransformFinish ==
    /\ transform_pc = "rows"
    /\ row_index > Len(annotations_file)
    /\ transformed' =
           IF current_entity_name = <<>> THEN TransformOk(transform_result)
           ELSE IF /\ transform_filter_for_id # Nothing
                   /\ transform_filter_for_id[1] # current_entity_name
           THEN TransformOk(transform_result)
           ELSE TransformOk(Append(transform_result, CurrentAnnotation))
    /\ transform_pc' = "done"
    /\ UNCHANGED <<annotations_file, transform_filter_for_id, row_index, transformLocals,
                 notTransform>>

\* the files drawn: every sequence of at most MaxRows of these rows, and the
\* file of test_gff3_io
MaxRows == 4
transcript1 == <<"t", "1">>
transcript2 == <<"t", "2">>
Attribute(key, value) == key \o <<"=">> \o value
Attributes(first, second) == first \o <<";">> \o second
foo == <<"f", "o", "o", "=", "b", "a", "r">>
TranscriptRow(chr, start, end, strand, id) ==
    GFF3Record(chr, "transcript", start, end, strand, ".",
               Some(Attributes(foo, Attribute(ID, id))))
ExonRow(chr, start, end, id, parent) ==
    GFF3Record(chr, "exon", start, end, "+", ".",
               Some(Attributes(Attribute(ID, id), Attribute(Parent, parent))))
CDSRow(chr, start, end, phase, id, parent) ==
    GFF3Record(chr, "CDS", start, end, "+", phase,
               Some(Attributes(Attribute(Parent, parent), Attribute(ID, id))))
GeneRow == GFF3Record("chr1", "gene", 1, 100, "+", ".", Some(<<"a", "t", "t", "r", "s">>))
GFF3Rows ==
    {GeneRow,
     GFF3Record("chr1", "region", 1, 100, "+", ".", Nothing),
     TranscriptRow("chr1", 10, 90, "+", transcript1),
     TranscriptRow("chr2", 1, 60, "-", transcript2),
     TranscriptRow("chr1", 10, 90, "+", <<>>),
     ExonRow("chr1", 20, 30, <<"e", "1">>, transcript1),
     ExonRow("chr2", 35, 40, <<"e", "2">>, transcript2),
     ExonRow("chr1", 20, 30, <<"e", "3">>, <<>>),
     ExonRow("chr1", 0, 5, <<"e", "4">>, transcript1),
     GFF3Record("chr2", "exon", 20, 30, "+", ".", Some(Attribute(Parent, transcript2))),
     CDSRow("chr1", 20, 25, "2", <<"c", "1">>, transcript1)}

\* transform.rs lines 193-208
TestFile ==
    <<GeneRow, GeneRow, GeneRow,
      TranscriptRow("chr1", 10, 90, "+", transcript1),
      ExonRow("chr1", 20, 30, <<"e", "1">>, transcript1),
      ExonRow("chr1", 35, 40, <<"e", "2">>, transcript1),
      CDSRow("chr1", 20, 25, "2", <<"c", "1">>, transcript1),
      CDSRow("chr1", 38, 40, "1", <<"c", "2">>, transcript1),
      TranscriptRow("chr2", 10, 90, "+", transcript2),
      ExonRow("chr2", 20, 30, <<"e", "3">>, transcript2),
      ExonRow("chr2", 35, 40, <<"e", "4">>, transcript2),
      CDSRow("chr2", 20, 25, "2", <<"c", "2">>, transcript2),
      CDSRow("chr2", 38, 40, "1", <<"c", "3">>, transcript2)>>

GFF3Files == UNION {[1..n -> GFF3Rows] : n \in 0..MaxRows} \cup {TestFile}

\* lines 28-36: the locals before the first row
TransformStart ==
    /\ row_index = 1
    /\ current_entity_name = <<>>
    /\ current_chromosome = ""
    /\ current_range = Interval(0, 1)
    /\ current_strand = "Plus"
    /\ current_exons = <<>>
    /\ current_cdss = <<>>
    /\ transform_result = <<>>
    /\ transformed = NotTransformed

TransformInit ==
    /\ annotations_file \in GFF3Files
    /\ transform_filter_for_id \in {Nothing, Some(transcript1)}
    /\ TransformStart
    /\ transform_pc = "rows"

TransformNext ==
    \/ TransformTranscript
    \/ TransformExon
    \/ TransformCDS
    \/ TransformOther
    \/ TransformFinish

\* no call
TransformIdle ==
    /\ annotations_file = <<>>
    /\ transform_filter_for_id = Nothing
    /\ TransformStart
    /\ transform_pc = "idle"

(***************************************************************************)
(* The specifications: one per component.                                  *)
(***************************************************************************)
InitCounter == CounterInit /\ ParamsIdle /\ SampleIdle /\ ExpectIdle /\ CompareIdle /\ ChangeIdle /\ AnnotateIdle /\ FilesIdle /\ MainIdle /\ TransformIdle
SpecCounter == InitCounter /\ [][CounterNext]_vars

InitSample == SampleInit /\ CounterIdle /\ ExpectIdle /\ CompareIdle /\ ChangeIdle /\ AnnotateIdle /\ FilesIdle /\ MainIdle /\ TransformIdle
SpecSample == InitSample /\ [][SampleNext]_vars

InitExpect == ExpectInit /\ CounterIdle /\ SampleIdle /\ CompareIdle /\ ChangeIdle /\ AnnotateIdle /\ FilesIdle /\ MainIdle /\ TransformIdle
SpecExpect == InitExpect /\ [][ExpectNext]_vars

InitCompare == CompareInit /\ CounterIdle /\ SamplerIdle /\ ExpectorIdle /\ ChangeIdle /\ AnnotateIdle /\ FilesIdle /\ MainIdle /\ TransformIdle
SpecCompare == InitCompare /\ [][CompareNext]_vars

InitChange ==
    /\ ChangeInit /\ ParamsIdle /\ CounterIdle /\ SampleIdle /\ ExpectIdle
    /\ CompareIdle /\ AnnotateIdle /\ FilesIdle /\ MainIdle /\ TransformIdle
SpecChange == InitChange /\ [][ChangeNext]_vars

InitAnnotate ==
    /\ AnnotateInit /\ CounterIdle /\ SampleIdle /\ ExpectIdle /\ CompareIdle
    /\ ChangeIdle /\ FilesIdle /\ MainIdle /\ TransformIdle
SpecAnnotate == InitAnnotate /\ [][AnnotateNext]_vars

InitFiles ==
    /\ FilesInit /\ ParamsIdle /\ CounterIdle /\ SampleIdle /\ ExpectIdle
    /\ CompareIdle /\ ChangeIdle /\ AnnotateIdle /\ MainIdle /\ TransformIdle
SpecFiles == InitFiles /\ [][FilesNext]_vars

InitMain ==
    /\ MainInit /\ ParamsIdle /\ CounterIdle /\ SampleIdle /\ ExpectIdle
    /\ CompareIdle /\ ChangeIdle /\ AnnotateIdle /\ FilesIdle /\ TransformIdle
SpecMain == InitMain /\ [][MainNext]_vars

InitTransform ==
    /\ TransformInit /\ ParamsIdle /\ CounterIdle /\ SampleIdle /\ ExpectIdle /\ CompareIdle
    /\ ChangeIdle /\ AnnotateIdle /\ FilesIdle /\ MainIdle
SpecTransform == InitTransform /\ [][TransformNext]_vars

(***************************************************************************)
(* counts.rs, test_p_values: inc(5) once, inc(6) 10 times, inc(7) 20       *)
(* times, inc(8) 30 times, inc(9) 39 times.                                *)
(***************************************************************************)
\* `for _ in 0..times { counter.inc(index) }`
RECURSIVE IncTimes(_, _, _)
IncTimes(vals, index, times) ==
    IF times = 0 THEN vals
    ELSE LET next == inc(vals, index)
         IN IF Len(next) > index THEN IncTimes(next, index, times - 1) ELSE next

TestCounter ==
    IncTimes(IncTimes(IncTimes(IncTimes(IncTimes(new, 5, 1), 6, 10), 7, 20), 8, 30), 9, 39)

test_p_values ==
    LET pv == p_values(TestCounter)
    IN /\ FEq(n_hits_or_more(pv, 0), FromNat(1))
       /\ FEq(n_hits_or_more(pv, 5), FromNat(1))
       /\ FEq(n_hits_or_more(pv, 6), FDiv(99, 100))
       /\ FEq(n_hits_or_more(pv, 7), FDiv(89, 100))
       /\ FEq(n_hits_or_more(pv, 8), FDiv(69, 100))
       /\ FEq(n_hits_or_more(pv, 9), FDiv(39, 100))
       /\ FEq(n_hits_or_more(pv, 10), FromNat(0))

(***************************************************************************)
(* Claims about DefaultCounter and PValues (SpecCounter).                  *)
(***************************************************************************)
\* number of inc calls so far whose index was >= k
CallsAtLeast(k) ==
    SumSeq([i \in 1..(MaxIndex + 1) |-> IF i - 1 >= k THEN inc_calls[i - 1] ELSE 0])

\* the highest index with a nonzero count (-1 when there is none)
HighestNonzero(vals) ==
    IF \A i \in 1..Len(vals) : vals[i] = 0 THEN -1
    ELSE (CHOOSE i \in 1..Len(vals) :
              vals[i] # 0 /\ \A j \in (i + 1)..Len(vals) : vals[j] = 0) - 1

\* the arguments n_hits_or_more is asked with: inside and beyond any histogram
Ks == 0..(MaxIndex + MaxFileLen + 2)

\* C1: after any sequence of inc calls (at least one) on a new counter,
\* p_values().n_hits_or_more(k) is (number of inc calls with index >= k) /
\* (number of inc calls) for every k; the counter of test_p_values gives
\* 1.0, 1.0, 0.99, 0.89, 0.69, 0.39, 0.0 for k = 0, 5, 6, 7, 8, 9, 10.
C1_TailFraction ==
    /\ (origin = "new" /\ NumCalls > 0) =>
            \A k \in Ks :
                FEq(n_hits_or_more(p_values(values), k), FDiv(CallsAtLeast(k), NumCalls))
    /\ test_p_values

\* C1 witness: a new counter after several inc calls with different indices,
\* where some k has a p-value strictly between 0 and 1.
C1_Witness ==
    /\ origin = "new" /\ NumCalls >= 2
    /\ \E k \in Ks :
           LET p == n_hits_or_more(p_values(values), k)
           IN FLt(FromNat(0), p) /\ FLt(p, FromNat(1))

\* C9: every counter with total N > 0 (built by inc calls, or by inc calls on
\* a histogram read from a file) has p_values().n_hits_or_more(0) == 1.0.
C9_ZeroHitsIsOne ==
    SumSeq(values) > 0 => FEq(n_hits_or_more(p_values(values), 0), FromNat(1))

\* C9 witness: a new counter after at least two inc calls, none of them inc(0),
\* so that the outcome 0 itself was never counted.
C9_Witness ==
    /\ origin = "new" /\ NumCalls >= 2 /\ inc_calls[0] = 0
    /\ values[1] = 0
    /\ FEq(n_hits_or_more(p_values(values), 0), FromNat(1))

\* C10: for every counter with total N > 0, n_hits_or_more(k) is 0.0 for
\* every k above the highest index with a nonzero count, for k inside the
\* histogram (trailing zero entries) and for k beyond its length.
C10_ZeroAboveHighest ==
    SumSeq(values) > 0 =>
        \A k \in Ks :
            k > HighestNonzero(values) =>
                FEq(n_hits_or_more(p_values(values), k), FromNat(0))

\* C10 witness: a histogram read from a file with total > 0 and a trailing
\* zero entry: k = Len - 1 is inside the histogram, k = Len is beyond it.
C10_Witness ==
    /\ origin = "file" /\ SumSeq(values) > 0
    /\ Len(values) >= 2 /\ values[Len(values)] = 0
    /\ HighestNonzero(values) < Len(values) - 1
    /\ FEq(n_hits_or_more(p_values(values), Len(values) - 1), FromNat(0))
    /\ FEq(n_hits_or_more(p_values(values), Len(values)), FromNat(0))

\* C11: for every counter with total N > 0, n_hits_or_more is non-increasing
\* in its argument: n_hits_or_more(i) >= n_hits_or_more(j) for all i <= j,
\* also for j beyond the end of the histogram.
C11_NonIncreasing ==
    SumSeq(values) > 0 =>
        \A i, j \in Ks :
            i <= j =>
                LET pv == p_values(values)
                IN /\ n_hits_or_more(pv, i).k = "num"
                   /\ n_hits_or_more(pv, j).k = "num"
                   /\ ~FLt(n_hits_or_more(pv, i), n_hits_or_more(pv, j))

\* C11 witness: a counter whose p-values fall at least twice inside the
\* histogram and once more beyond its end
C11_Witness ==
    /\ SumSeq(values) > 0 /\ Len(values) >= 3
    /\ LET pv == p_values(values)
       IN /\ FLt(n_hits_or_more(pv, 1), n_hits_or_more(pv, 0))
          /\ FLt(n_hits_or_more(pv, Len(values) - 1), n_hits_or_more(pv, 1))
          /\ FLt(n_hits_or_more(pv, Len(values)), n_hits_or_more(pv, Len(values) - 1))

(***************************************************************************)
(* Claims about sample_mutations (SpecSample).                             *)
(***************************************************************************)
\* number of events of the type in the event list
EventsOfType(events, ty) ==
    Cardinality({i \in 1..Len(events) : events[i].mutation_type = ty})

\* C3: in every trial, also one whose threshold u equals entries of the
\* sorted probability vector, the value passed to counter.inc is the number
\* of entries strictly greater than u.
C3_SuccessesAreStrictlyGreater ==
    last_trial.done =>
        last_trial.successes =
            Cardinality({i \in 1..Len(last_trial.probs) :
                             last_trial.probs[i] > last_trial.threshold})

\* C4: for every region of the sampler's output and every mutation type with
\* a counter there, the histogram entries sum to number_of_samplings and the
\* histogram has at most (number of events of that type in the region) + 1
\* entries.
C4_HistogramTotalAndLength ==
    \A r \in DOMAIN sampled :
        \A ty \in DOMAIN sampled[r] :
            /\ SumSeq(sampled[r][ty]) = number_of_samplings
            /\ Len(sampled[r][ty]) <= EventsOfType(possible_mutations[r], ty) + 1

\* C4 witness: the sampler has returned after trials on a type with several
\* events, and its histogram has the full length (every event a success once).
C4_Witness ==
    /\ sample_pc = "returned"
    /\ number_of_samplings >= 2
    /\ \E r \in DOMAIN sampled :
       \E ty \in DOMAIN sampled[r] :
           /\ EventsOfType(possible_mutations[r], ty) >= 2
           /\ Len(sampled[r][ty]) = EventsOfType(possible_mutations[r], ty) + 1
           /\ SumSeq(sampled[r][ty]) = number_of_samplings

(***************************************************************************)
(* Claims about expected_number_of_mutations (SpecExpect).                 *)
(***************************************************************************)
\* the exact sum of the probabilities of the events of the type, written
\* without an order: each probability times the number of events carrying it
RECURSIVE SumOverValues(_, _, _)
SumOverValues(probabilities, events, ty) ==
    IF probabilities = {} THEN 0
    ELSE LET pr == CHOOSE x \in probabilities : TRUE
         IN pr * Cardinality({i \in 1..Len(events) : events[i] = MutationEvent(ty, pr)})
                + SumOverValues(probabilities \ {pr}, events, ty)
SumOfType(events, ty) ==
    SumOverValues({events[i].probability : i \in 1..Len(events)}, events, ty)

\* the regions that pass the id filter
PassFilter == {r \in DOMAIN possible_mutations : filter_for_id = None \/ r = filter_for_id}

\* C5: the result holds, for every region that passes the id filter, a record
\* whose value for each MutationType is the sum of the probabilities of the
\* region's events of that type, as the nearest Float (0 for a type with no
\* events), whatever the order of the events.
C5_ExpectedIsSumOfProbabilities ==
    /\ DOMAIN expected \subseteq PassFilter
    /\ expect_pc = "returned" => DOMAIN expected = PassFilter
    /\ \A r \in DOMAIN expected :
           \A ty \in MutationTypeSet :
               get(expected[r], ty) = RoundF32(SumOfType(possible_mutations[r], ty))

\* C5 witness: the expector has returned a region whose events of one type are
\* 0.5 first and 2^-25 twice after it: the sum 0.5 + 2^-24 is exact, while
\* adding in f32 in this order would lose both small terms.
C5_Witness ==
    /\ expect_pc = "returned"
    /\ \E r \in DOMAIN expected :
       \E ty \in ExpectEventTypes :
           /\ EventsOfType(possible_mutations[r], ty) >= 3
           /\ possible_mutations[r][1] = MutationEvent(ty, Half)
           /\ get(expected[r], ty) = Half + 2 * Tiny
           /\ FAdd32(FAdd32(Half, Tiny), Tiny) = Half

(***************************************************************************)
(* Claims about compare_mutations (SpecCompare)                            *)
(***************************************************************************)
\* the number of observed mutations of a region and type
ObservedOf(region, ty) ==
    Cardinality({i \in 1..Len(classified_observed_mutations) :
        /\ classified_observed_mutations[i].region_name = region
        /\ classified_observed_mutations[i].mutation_type = ty})

\* the (region, type) pairs that have both an expected count and a sampled
\* distribution, Unknown left out
ComparablePairs ==
    {pair \in (DOMAIN expected) \X (MutationTypeSet \ {"Unknown"}) :
        /\ pair[1] \in DOMAIN sampled
        /\ pair[2] \in DOMAIN sampled[pair[1]]}

\* the row the comparison of a pair is said to give
RowOf(pair) ==
    ComparedMutations(pair[1], pair[2], ObservedOf(pair[1], pair[2]),
                      expected[pair[1]][pair[2]],
                      n_hits_or_more(p_values(sampled[pair[1]][pair[2]]),
                                     ObservedOf(pair[1], pair[2])))

RowsAreThePairs(rs) ==
    /\ Len(rs) = Cardinality(ComparablePairs)
    /\ \A pair \in ComparablePairs : \E i \in 1..Len(rs) : rs[i] = RowOf(pair)

\* C2: when compare_mutations has returned, its result holds exactly one row
\* for every region of the expected counts and every type other than Unknown
\* that has a sampled distribution in that region, with the observed count of
\* that region and type, the expected count and the p-value of the observed
\* count under the distribution.
C2_RowsOfCompare ==
    compare_pc = "returned" => compared.state = "Ok" /\ RowsAreThePairs(compared.rows)

\* the same, for a call without a region filter whose expected regions all
\* have sampled distributions
C2_RowsWithoutFilter ==
    (compare_pc = "returned" /\ filter_for_id = None
        /\ DOMAIN expected \subseteq DOMAIN sampled)
    => compared.state = "Ok" /\ RowsAreThePairs(compared.rows)

(***************************************************************************)
(* Claims about Change (SpecChange)                                        *)
(***************************************************************************)
IsMultipleOf3(n) == \E k \in -MaxAlleleLen..MaxAlleleLen : n = 3 * k

\* is_frameshift of the mutation given as (ref, alt)
FrameshiftOf(ref, alt) == is_frameshift(NewChange(ref, alt))

\* C8: is_frameshift is true exactly when the length of alt minus the length
\* of ref is not a multiple of 3, for insertions and deletions alike, and
\* false for every point mutation; ("A","ACGT") false, ("A","AC") true,
\* ("ACGT","A") false, ("AC","A") true.
C8_FrameshiftIsNetLengthMod3 ==
    /\ change_pc = "asked" =>
           /\ frameshift = ~IsMultipleOf3(Len(to) - Len(from))
           /\ change.kind = "PointMutation" => frameshift = FALSE
    /\ FrameshiftOf(<<"A">>, <<"A", "C", "G", "T">>) = FALSE
    /\ FrameshiftOf(<<"A">>, <<"A", "C">>) = TRUE
    /\ FrameshiftOf(<<"A", "C", "G", "T">>, <<"A">>) = FALSE
    /\ FrameshiftOf(<<"A", "C">>, <<"A">>) = TRUE

\* an insertion of three bases and a deletion of one base have been asked
C8_Witness ==
    /\ change_pc = "asked"
    /\ change.kind = "Indel"
    /\ Len(to) = Len(from) + 1
    /\ frameshift = TRUE
C8_WitnessInFrame ==
    /\ change_pc = "asked"
    /\ change.kind = "Indel"
    /\ Len(to) = Len(from) + 3
    /\ frameshift = FALSE

(***************************************************************************)
(* Claims about the enumerator and the classifier (SpecAnnotate)           *)
(***************************************************************************)
\* the annotation of a name
AnnotationOf(name) ==
    annotations[CHOOSE i \in 1..Len(annotations) : annotations[i].name = name]

\* the reference base of a position, and whether the oracle has a rate for it
RefAt(chr, position) == genome[chr][position + 1]
HasRate(chr, position) ==
    \A q \in (position - mutation_rates.radius)..(position + mutation_rates.radius) :
        RefAt(chr, q) \in BaseSet

\* the place of the possible mutation (position, alt) among the events of its
\* region: the number of possible mutations up to it that were not dropped
AlternativeRank(base) == CHOOSE i \in 1..Len(Alternatives) : Alternatives[i] = base
EventIndex(annotation, position, alt) ==
    Cardinality({pair \in (annotation.range.start..position) \X BaseSet :
        /\ pair[2] # RefAt(annotation.chr, pair[1])
        /\ HasRate(annotation.chr, pair[1]) \/ ~drop_nan
        /\ pair[1] < position \/ AlternativeRank(pair[2]) <= AlternativeRank(alt)})

\* the classified point mutations that are also possible mutations of the
\* enumerator's result
Enumerated(i) ==
    /\ classified[i].change.kind = "PointMutation"
    /\ classified[i].region \in DOMAIN possible_mutations
    /\ classified[i].change.to[1] \in BaseSet
    /\ HasRate(classified[i].chromosome, classified[i].position) \/ ~drop_nan

\* C6: the class the enumerator attaches to the possible mutation (p, b) of
\* an annotation is the class classify_mutations gives the observed point
\* mutation at p with the reference base as ref and b as alt.
C6_EnumeratorAndClassifierAgree ==
    enumerate_pc = "returned" =>
        \A i \in 1..Len(classified) :
            Enumerated(i) =>
                LET annotation == AnnotationOf(classified[i].region)
                    index == EventIndex(annotation, classified[i].position,
                                        classified[i].change.to[1])
                IN /\ index \in 1..Len(possible_mutations[classified[i].region])
                   /\ possible_mutations[classified[i].region][index].mutation_type
                          = classified[i].mutation_type

\* a possible mutation classified by the codon rules on both paths
C6_Witness ==
    /\ enumerate_pc = "returned"
    /\ classify_pc = "returned"
    /\ \E i \in 1..Len(classified) :
          /\ Enumerated(i)
          /\ classified[i].mutation_type \in {"Missense", "Nonsense", "StartCodon"}
          /\ AnnotationOf(classified[i].region).strand = "Minus"
          /\ mutation_rates.radius = 3

\* the positions an indel affects behind its anchor base
AffectedSpan(mutation) ==
    (mutation.position + 1)..
        (mutation.position + IF Len(mutation.change.from) > 1
                             THEN Len(mutation.change.from) - 1 ELSE 1)
OverlapsCDS(annotation, mutation) ==
    \E position \in AffectedSpan(mutation) : find_cds(annotation, position) # Nothing

\* C7: an observed indel is classified FrameshiftIndel or InFrameIndel,
\* according to is_frameshift, whenever any position of its affected span
\* behind the anchor base is in a CDS of the annotation, and Intronic only
\* when no position of the span is in a CDS.
C7_IndelClassifiedBySpan ==
    \A i \in 1..Len(classified) :
        classified[i].change.kind = "Indel" =>
            classified[i].mutation_type =
                IF OverlapsCDS(AnnotationOf(classified[i].region), classified[i])
                THEN IF is_frameshift(classified[i].change)
                     THEN "FrameshiftIndel" ELSE "InFrameIndel"
                ELSE "Intronic"

\* the same for the indels whose first position behind the anchor decides
C7_IndelClassifiedByFirstPosition ==
    \A i \in 1..Len(classified) :
        classified[i].change.kind = "Indel" =>
            classified[i].mutation_type =
                IF find_cds(AnnotationOf(classified[i].region),
                            classified[i].position + 1) # Nothing
                THEN IF is_frameshift(classified[i].change)
                     THEN "FrameshiftIndel" ELSE "InFrameIndel"
                ELSE "Intronic"

(***************************************************************************)
(* Claims about the artifacts on disk                                      *)
(***************************************************************************)
\* C12: a sampled-mutations table that write_to_file of sample.rs wrote is
\* read back by read_from_file as the same table: the same regions, the
\* same classes per region, the same histogram per class
C12_SampledRoundTrip ==
    (artifact = "sampled" /\ file_pc = "read") => read_back = ReadOk(written)

\* C13: an expected-mutations table that write_to_file of expect.rs wrote is
\* read back by read_from_file as the same table, the counts of all ten
\* mutation types included
C13_ExpectedRoundTrip ==
    (artifact = "expected" /\ file_pc = "read") => read_back = ReadOk(written)

\* C14: a possible-mutations table that write_to_file of enumerate.rs wrote,
\* in whatever order of its regions, is read back by read_from_file as the
\* same table: every region, its events in order, each with its type and
\* its probability
C14_PossibleRoundTrip ==
    (artifact = "possible" /\ file_pc = "read") => read_back = ReadOk(written)
\* a table of two regions, one without events, written second region first
C14_Witness ==
    /\ artifact = "possible" /\ file_pc = "read"
    /\ DOMAIN written = Regions
    /\ written["r1"] = <<>> /\ Len(written["r2"]) > 2
    /\ file[1] = <<"#">> \o CharsOf("r2")
    /\ read_back.state = "Ok"

\* C15: a list of mutations that write_to_file of observed.rs wrote is read
\* back by read_from_file as the same list
C15_ObservedRoundTrip ==
    (artifact = "observed" /\ file_pc = "read") => read_back = ReadOk(written)

\* a point mutation with a region and a class, then an indel without either
C15_Witness ==
    /\ artifact = "observed" /\ file_pc = "read"
    /\ Len(written) = 2
    /\ written[1].region # None /\ written[1].change.kind = "PointMutation"
    /\ written[1].mutation_type = "Missense"
    /\ written[2].region = None /\ written[2].change.kind = "Indel"
    /\ read_back.state = "Ok"

(***************************************************************************)
(* Claims about failures inside a stage                                    *)
(***************************************************************************)
\* the annotations that pass the filter of --id
AnnotationsPassed ==
    {annotations[i].name : i \in {j \in 1..Len(annotations) :
         filter_for_id = None \/ annotations[j].name = filter_for_id}}

\* C16: enumerate_possible_mutations neither returns an error nor aborts
\* because of one annotation: when it is through the list, every annotation
\* that passed the filter is in the result or was warned about and left out
C16_FailingRegionIsSkipped ==
    /\ enumerate_pc \notin {"failed", "panicked"}
    /\ enumerate_pc = "returned" =>
           /\ DOMAIN possible_mutations \cup enumerate_warnings = AnnotationsPassed
           /\ DOMAIN possible_mutations \cap enumerate_warnings = {}


\* C17: compare_mutations returns Ok whatever distributions are missing: its
\* result has a row for every pair with a distribution, none for a pair
\* without, and the warnings are the pairs without a distribution whose
\* expected count is not 0
C17_MissingDistributionOmitsRow ==
    compare_pc = "returned" =>
        /\ compared.state = "Ok"
        /\ \A pair \in ComparablePairs :
               \E i \in 1..Len(compared.rows) :
                   /\ compared.rows[i].region = pair[1]
                   /\ compared.rows[i].mutation_type = pair[2]
        /\ \A i \in 1..Len(compared.rows) :
               <<compared.rows[i].region, compared.rows[i].mutation_type>>
                   \in ComparablePairs

\* the same, for expected regions that all have an entry in the sampled
\* mutations: only a class is missing
C17_MissingClassOmitsRow ==
    (compare_pc = "returned" /\ DOMAIN expected \subseteq DOMAIN sampled) =>
        /\ compared.state = "Ok"
        /\ \A pair \in (DOMAIN expected) \X (MutationTypeSet \ {"Unknown"}) :
               (\E i \in 1..Len(compared.rows) :
                    /\ compared.rows[i].region = pair[1]
                    /\ compared.rows[i].mutation_type = pair[2])
                   <=> pair \in ComparablePairs
        /\ warnings = {pair \in (DOMAIN expected) \X (MutationTypeSet \ {"Unknown"}) :
                           pair \notin ComparablePairs /\ expected[pair[1]][pair[2]] # 0}


\* C18: in the rows compare_mutations returns, no row with a number as
\* p_value stands before a row with a smaller number as p_value, whatever
\* rows with a NaN p_value stand between or beside them
C18_SortedByPValue ==
    compared.state = "Ok" =>
        \A i, j \in 1..Len(compared.rows) :
            i < j => ~FLt(compared.rows[j].p_value, compared.rows[i].p_value)

\* the same, for results without a NaN p_value
C18_SortedWithoutNaN ==
    (compared.state = "Ok"
        /\ \A i \in 1..Len(compared.rows) : compared.rows[i].p_value.k # "nan")
    => \A i, j \in 1..Len(compared.rows) :
           i < j => ~FLt(compared.rows[j].p_value, compared.rows[i].p_value)


(***************************************************************************)
(* Claims about the driver (SpecMain)                                      *)
(***************************************************************************)
\* the file flags a run of one step takes its inputs from, and those a run
\* of all steps needs for the step (the other inputs being the results of
\* the steps before it)
Required ==
    [transform |-> {"gff3"},
     enumerate |-> {"genomic-regions", "genome", "point-mutation-probabilities"},
     expect |-> {"possible-mutations"},
     sample |-> {"possible-mutations"},
     classify |-> {"observed-mutations", "genomic-regions", "genome"},
     compare |-> {"classified-mutations", "expected-mutations", "sampled-mutations"}]
RequiredOfAll ==
    [transform |-> {"gff3"},
     enumerate |-> {"genome", "point-mutation-probabilities"},
     expect |-> {},
     sample |-> {},
     classify |-> {"observed-mutations", "genome"},
     compare |-> {}]
Needs(step) == IF run_all THEN RequiredOfAll[step] ELSE Required[step]

\* the flag of the file a step writes
ArtifactOf ==
    [transform |-> "genomic-regions", enumerate |-> "possible-mutations",
     expect |-> "expected-mutations", sample |-> "sampled-mutations",
     classify |-> "classified-mutations", compare |-> "significant-mutations"]
ArtifactsWritten == {artifacts_written[i] : i \in 1..Len(artifacts_written)}

\* the inputs of the run are of their formats
WellFormed ==
    condition \notin {"gff3_malformed", "observed_malformed", "expected_malformed",
                      "samples_not_a_number"}

\* C19: a run with --action naming a step, the required inputs of the step
\* given and every input of its format has, when it is over, called that
\* step and no other, written no file but the artifact of that step, and
\* ended with exit zero
C19_OnlyThatStep ==
    (main_pc = "exited" /\ action \in ActionSet /\ Required[action] \subseteq flags
        /\ WellFormed)
    => /\ exit = "Ok"
       /\ steps_run = <<action>>
       /\ ArtifactsWritten \subseteq {ArtifactOf[action]}

\* what holds of every run of one step: no other step is called and no
\* other file written; with sound inputs it ends with exit zero
C19_NoOtherStep ==
    (main_pc = "exited" /\ action \in ActionSet)
    => /\ \A i \in 1..Len(steps_run) : steps_run[i] = action
       /\ ArtifactsWritten \subseteq {ArtifactOf[action]}
       /\ (Required[action] \subseteq flags /\ condition = "sound")
              => exit = "Ok" /\ steps_run = <<action>>

\* the steps of the run, and the first of them that lacks an input
StepsOfRun == {i \in 1..Len(Actions) : run_all \/ action = Actions[i]}
Lacking == {i \in StepsOfRun : ~(Needs(Actions[i]) \subseteq flags)}
FirstLacking == CHOOSE i \in Lacking : \A h \in Lacking : i <= h
\* the name by which an error names a flag
FlagNamed ==
    [f \in FileFlags |->
        CASE f = "gff3" -> "--gff3"
          [] f = "genome" -> "--genome"
          [] f = "point-mutation-probabilities" -> "--point-mutation-probabilities"
          [] f = "observed-mutations" -> "--observed-mutations"
          [] f = "genomic-regions" -> "--genomic-regions"
          [] f = "possible-mutations" -> "--possible-mutations"
          [] f = "classified-mutations" -> "--classified-mutations"
          [] f = "expected-mutations" -> "--expected-mutations"
          [] f = "sampled-mutations" -> "--sampled-mutations"]

\* C20: a run of which a step lacks a required input, every input given
\* being of its format, ends with an error that names a flag the first such
\* step lacks, and has not written the artifact of that step
C20_MissingInputIsNamed ==
    (main_pc = "exited" /\ Lacking # {} /\ WellFormed)
    => /\ exit = "Err"
       /\ \E f \in Needs(Actions[FirstLacking]) \ flags : error = FlagNamed[f]
       /\ ArtifactOf[Actions[FirstLacking]] \notin ArtifactsWritten

\* the same for runs with sound inputs
C20_MissingInputOfSoundRun ==
    (main_pc = "exited" /\ Lacking # {} /\ condition = "sound")
    => /\ exit = "Err"
       /\ \E f \in Needs(Actions[FirstLacking]) \ flags : error = FlagNamed[f]
       /\ ArtifactOf[Actions[FirstLacking]] \notin ArtifactsWritten


\* the artifacts the steps called so far have written: those of the steps
\* that returned Ok and whose file flag is given, in the order of the steps
RECURSIVE ArtifactsOf(_)
ArtifactsOf(steps) ==
    IF steps = <<>> THEN <<>>
    ELSE LET step == steps[Len(steps)]
             before == ArtifactsOf(SubSeq(steps, 1, Len(steps) - 1))
         IN IF ~StepFails(step) /\ ArtifactOf[step] \in FlagsWithValue
            THEN Append(before, ArtifactOf[step])
            ELSE before

\* C21: in a run without --action the steps called are, in order, the first
\* steps of transform, enumerate, expect, sample, classify, compare, and the
\* files written are, in that order, the artifacts of the steps that
\* returned Ok; a run that failed is over, with nonzero exit, at the step
\* that failed, the artifacts written before it kept; a run that ends with
\* exit zero has called all six steps
C21_AllStepsInOrder ==
    (run_all /\ main_pc # "idle")
    => /\ steps_run = SubSeq(Actions, 1, Len(steps_run))
       /\ artifacts_written = ArtifactsOf(steps_run)
       /\ exit # "running" <=> main_pc = "exited"
       /\ (exit = "Ok" => steps_run = Actions)
       /\ (exit \in {"Err", "panic"} =>
               /\ Len(steps_run) < Len(Actions)
               /\ error # None)
       /\ (main_pc \in ActionSet =>
               steps_run = SubSeq(Actions, 1, Len(steps_run))
                   /\ Actions[Len(steps_run) + 1] = main_pc)

\* a run of all steps whose enumerate step failed: transform has written
\* its artifact, no step after enumerate was called
C21_Witness ==
    /\ run_all /\ main_pc = "exited" /\ exit = "Err"
    /\ steps_run = <<"transform", "enumerate">>
    /\ artifacts_written = <<"genomic-regions">>

\* a run of all steps that ended with exit zero and wrote all six artifacts
C21_WitnessAll ==
    /\ run_all /\ main_pc = "exited" /\ exit = "Ok"
    /\ Len(artifacts_written) = Len(Actions)

(***************************************************************************)
(* Claims about transform_gff3_annotations.                                *)
(***************************************************************************)
IsTranscript(i) == annotations_file[i].seq_type = "transcript"
IDOfRow(i) == get_attribute(annotations_file[i].attributes[1], ID)[1]
\* the row of the next transcript after row i, or the end of the file
NextTranscript(i) ==
    LET later == {j \in (i + 1)..Len(annotations_file) : IsTranscript(j)}
    IN IF later = {} THEN Len(annotations_file) + 1
       ELSE CHOOSE j \in later : \A h \in later : j <= h
\* the rows of a type that lie between transcript row i and the next one
RowsOf(i, seq_type) ==
    LET OfType(row) == row.seq_type = seq_type
    IN SelectSeq(SubSeq(annotations_file, i + 1, NextTranscript(i) - 1), OfType)
\* a row's 1-based inclusive (start, end) as 0-based and end-exclusive
HalfOpen(row) == Interval(row.start - 1, row.end)
AnnotationOfRow(i) ==
    LET row == annotations_file[i]
        exons == RowsOf(i, "exon")
        cdss == RowsOf(i, "CDS")
    IN SeqAnnotation(IDOfRow(i), row.seq_id, HalfOpen(row), StrandOf(row.strand)[1],
                     [k \in 1..Len(exons) |-> HalfOpen(exons[k])],
                     [k \in 1..Len(cdss) |->
                         CDS(HalfOpen(cdss[k]), PhaseOf(cdss[k].phase)[1])])
PassesFilter(i) ==
    transform_filter_for_id = Nothing \/ transform_filter_for_id[1] = IDOfRow(i)
RECURSIVE AnnotationsFrom(_)
AnnotationsFrom(i) ==
    IF i > Len(annotations_file) THEN <<>>
    ELSE (IF IsTranscript(i) /\ PassesFilter(i) THEN <<AnnotationOfRow(i)>> ELSE <<>>)
         \o AnnotationsFrom(i + 1)

\* C22: a file that transform_gff3_annotations accepts gives, in file order,
\* one SeqAnnotation per transcript row whose ID passes the filter, the last
\* transcript included, each with the exon rows and the CDS rows between its
\* transcript row and the next one or the end of the file, in file order
C22_OneAnnotationPerTranscript ==
    (transform_pc = "done" /\ transformed.state = "Ok")
    => transformed.value = AnnotationsFrom(1)

\* the same of the files in which every transcript has a name
NoEmptyID ==
    \A i \in 1..Len(annotations_file) : IsTranscript(i) => IDOfRow(i) # <<>>
C22_NamedTranscripts ==
    (transform_pc = "done" /\ transformed.state = "Ok" /\ NoEmptyID)
    => transformed.value = AnnotationsFrom(1)
C22_WitnessTestFile ==
    /\ transform_pc = "done" /\ transformed.state = "Ok"
    /\ annotations_file = TestFile
    /\ Len(transformed.value) = 2


\* the most recent transcript row before row i, 0 when there is none
RecentTranscript(i) ==
    LET earlier == {j \in 1..(i - 1) : IsTranscript(j)}
    IN IF earlier = {} THEN 0 ELSE CHOOSE j \in earlier : \A h \in earlier : h <= j
\* the loop is at an exon or CDS row that names a Parent which is not the ID
\* of the most recent transcript row
NamesOtherParent ==
    /\ AtRow({"exon", "CDS"})
    /\ annotations_file[row_index].attributes # Nothing
    /\ LET parent == get_attribute(annotations_file[row_index].attributes[1], Parent)
       IN /\ parent # Nothing
          /\ \/ RecentTranscript(row_index) = 0
             \/ parent[1] # IDOfRow(RecentTranscript(row_index))
RejectedAsNotOrdered ==
    /\ transform_pc = "done"
    /\ transformed = TransformErr(NotOrdered)

\* C23: an exon or CDS row that names a Parent which is not the ID of the
\* most recent transcript row, a row before any transcript row included,
\* makes the function return the error "not an ordered tree structure" and
\* no annotations
C23_OtherParentRejects == [][NamesOtherParent => RejectedAsNotOrdered']_vars

\* the same of the rows that have an ID and a Parent that is not empty
C23_NamedParentRejects ==
    [][(/\ NamesOtherParent
        /\ get_attribute(annotations_file[row_index].attributes[1], ID) # Nothing
        /\ get_attribute(annotations_file[row_index].attributes[1], Parent) # Some(<<>>))
       => RejectedAsNotOrdered']_vars
C23_WitnessBeforeTranscript ==
    /\ RejectedAsNotOrdered
    /\ row_index = 1
C23_WitnessAccepted ==
    /\ transform_pc = "done" /\ transformed.state = "Ok"
    /\ Len(annotations_file) > 0
    /\ annotations_file[1] = ExonRow("chr1", 20, 30, <<"e", "3">>, <<>>)


\* the interval the step at hand stored for its row
StoredInterval ==
    LET seq_type == annotations_file[row_index].seq_type
    IN IF seq_type = "transcript" THEN current_range'
       ELSE IF seq_type = "exon" THEN current_exons'[Len(current_exons')]
       ELSE current_cdss'[Len(current_cdss')].range

\* C24: a transcript, exon or CDS row with the 1-based inclusive coordinates
\* (start, end) is stored as the 0-based half-open interval [start - 1, end),
\* which has as many bases as the row
C24_HalfOpenCoordinates ==
    [][(/\ AtRow({"transcript", "exon", "CDS"})
        /\ 1 <= annotations_file[row_index].start
        /\ annotations_file[row_index].start <= annotations_file[row_index].end
        /\ row_index' = row_index + 1)
       => LET row == annotations_file[row_index]
          IN /\ StoredInterval.start = row.start - 1
             /\ StoredInterval.stop = row.end
             /\ StoredInterval.stop - StoredInterval.start = row.end - row.start + 1]_vars
\* the file of test_gff3_io: 10..90, exons 20..30 and 35..40, CDS 20..25 and
\* 38..40
C24_Witness ==
    /\ transform_pc = "done" /\ transformed.state = "Ok"
    /\ annotations_file = TestFile
    /\ transform_filter_for_id = Nothing
    /\ transformed.value[1].range = Interval(9, 90)
    /\ transformed.value[1].exons = <<Interval(19, 30), Interval(34, 40)>>
    /\ transformed.value[1].coding_sequences =
           <<CDS(Interval(19, 25), 2), CDS(Interval(37, 40), 1)>>
    /\ transformed.value[2].range = Interval(9, 90)
    /\ transformed.value[2].chr = "chr2"


(***************************************************************************)
(* Claims about the index of the failures.                                 *)
(***************************************************************************)
\* the 0-based indices of the entries of the last trial that equal its threshold
EqualEntries ==
    {i \in 0..(Len(last_trial.probs) - 1) : last_trial.probs[i + 1] = last_trial.threshold}

\* C25: in a trial whose threshold u equals entries of the sorted probability
\* vector, the failures are the smallest index whose entry equals u, whichever
\* of the equal entries the binary search reports, index 0 included
C25_FailuresIsLeftmostEqual ==
    (last_trial.done /\ EqualEntries # {})
    => \A i \in EqualEntries :
           Len(last_trial.probs) - last_trial.successes <= i

\* the same when the leftmost equal entry is not the first of the vector, or
\* the search reports the first
C25_LeftmostBehindFirst ==
    (last_trial.done /\ EqualEntries # {} /\ 0 \notin EqualEntries)
    => /\ Len(last_trial.probs) - last_trial.successes \in EqualEntries
       /\ \A i \in EqualEntries : Len(last_trial.probs) - last_trial.successes <= i
C25_WitnessSecond ==
    /\ last_trial.done
    /\ EqualEntries = {0, 1}
    /\ Len(last_trial.probs) - last_trial.successes = 1


(***************************************************************************)
(* Claims about the class of an observed point mutation.                   *)
(***************************************************************************)
\* the two bases on either side of a position and the base itself
ContextAround(chr, position) == [k \in 1..5 |-> RefAt(chr, position - 3 + k)]
\* the annotations classify_mutations works on
FilteredAnnotations ==
    {i \in 1..Len(annotations) : filter_for_id = None \/ filter_for_id = annotations[i].name}
\* the observed mutations that lie in an annotation
ObservedIn(annotation) ==
    {j \in 1..Len(classify_observed_mutations) :
        /\ classify_observed_mutations[j].chromosome = annotation.chr
        /\ contains(annotation.range, classify_observed_mutations[j].position)}

\* C26: an emitted point mutation has the class of its position when
\* classify_by_position decides (SpliceSite or Intronic), the class of the
\* codon rules when it does not and the position is in a CDS, and Unknown
\* otherwise; every observed mutation in the range of an annotation is
\* emitted, with the name of the annotation as its region
C26_PositionBeforeCodon ==
    /\ \A i \in 1..Len(classified) :
          /\ \E a \in FilteredAnnotations :
                /\ classified[i].region = annotations[a].name
                /\ classified[i].chromosome = annotations[a].chr
                /\ contains(annotations[a].range, classified[i].position)
          /\ classified[i].change.kind = "PointMutation" =>
                LET annotation == AnnotationOf(classified[i].region)
                    position == classified[i].position
                    context == ContextAround(classified[i].chromosome, position)
                    by_position ==
                        classify_by_position(position, context,
                                             find_intron(annotation, position))
                    cds == find_cds(annotation, position)
                IN /\ by_position # "Unknown"
                      => /\ classified[i].mutation_type = by_position
                         /\ by_position \in {"SpliceSite", "Intronic"}
                   /\ (by_position = "Unknown" /\ cds # Nothing)
                      => classified[i].mutation_type =
                             classify_coding_mutation(annotation, position, context,
                                                      classified[i].change.to[1], cds[1])
                   /\ (by_position = "Unknown" /\ cds = Nothing)
                      => classified[i].mutation_type = "Unknown"
    /\ classify_pc = "returned" =>
          \A a \in FilteredAnnotations :
              \A j \in ObservedIn(annotations[a]) :
                  \E i \in 1..Len(classified) :
                      /\ classified[i].region = annotations[a].name
                      /\ classified[i].position = classify_observed_mutations[j].position
                      /\ classified[i].change = classify_observed_mutations[j].change

\* a point mutation in an exon outside every CDS was emitted as Unknown
C26_Witness ==
    /\ classify_pc = "returned"
    /\ \E i \in 1..Len(classified) :
          /\ classified[i].change.kind = "PointMutation"
          /\ classified[i].mutation_type = "Unknown"
          /\ classified[i].region = "r1"
          /\ find_cds(AnnotationOf("r1"), classified[i].position) = Nothing
          /\ find_intron(AnnotationOf("r1"), classified[i].position) = Nothing
\* one at a splice site, one in the middle of an intron, one in a codon
C26_WitnessClasses ==
    /\ classify_pc = "returned"
    /\ \E i \in 1..Len(classified) :
          /\ classified[i].change.kind = "PointMutation"
          /\ classified[i].mutation_type \in {"SpliceSite", "Intronic"}


(***************************************************************************)
(* Claims about files of possible mutations that are not well-formed.      *)
(***************************************************************************)
IsNameLine(line) == line # <<>> /\ line[1] = "#"
\* the 1-based numbers of the lines of the file that are not well-formed: an
\* event line before the first name line, without ':', or with a type code
\* or a probability that is no number
MalformedLines ==
    {n \in 1..Len(file) :
        /\ ~IsNameLine(file[n])
        /\ \/ \A h \in 1..(n - 1) : ~IsNameLine(file[h])
           \/ Len(Split(file[n], ":")) < 2
           \/ ~ParseU8(Split(file[n], ":")[1]).ok
           \/ ~ParseF32(Split(file[n], ":")[2]).ok}
ReadMalformed ==
    /\ artifact = "possible-input" /\ file_pc = "read"
    /\ MalformedLines # {}

\* C27: read_from_file of a file with a malformed line returns an error that
\* names the file and the number of a malformed line; it does not panic and
\* returns no table
C27_MalformedFileIsAnError ==
    ReadMalformed
    => /\ read_back.state = "Err"
       /\ read_back.names_file
       /\ read_back.line_number # Nothing
       /\ read_back.line_number[1] \in MalformedLines

\* the same of the files whose first malformed line comes before any name line
C27_EventBeforeName ==
    (ReadMalformed /\ \A h \in 1..Len(file) : h \in MalformedLines \/ ~IsNameLine(file[h]))
    => /\ read_back.state = "Err"
       /\ read_back.names_file
       /\ read_back.line_number = Some(1)
\* no table is returned for a malformed file
C27_NoPartialTable == ReadMalformed => read_back.state \in {"Err", "panic"}
C27_WitnessPanic ==
    /\ ReadMalformed
    /\ file = <<<<"#", "r", "1">>, <<"1">>>>
    /\ read_back.state = "panic"
C27_WitnessNoLine ==
    /\ ReadMalformed
    /\ file = <<<<"#", "r", "1">>, <<"1", ":", "x">>>>
    /\ read_back = ParseFloatError


(***************************************************************************)
(* Claims about read_mutations_from_file.                                  *)
(***************************************************************************)
\* the lines of the file that are no comments, in file order
DataLines ==
    LET IsData(line) == line[1] # "#"
    IN SelectSeq(file, IsData)
PosOf(line) == ParseI64(Split(line, " ")[2]).value
ReadObserved == artifact = "observed-input" /\ file_pc = "read"
\* the number of the first data line of fewer than 4 fields when no line
\* before it has a pos that is no number, 0 when there is no such line
FirstShortLine ==
    LET short == {n \in 1..Len(file) :
                     /\ file[n][1] # "#"
                     /\ Len(Split(file[n], " ")) < 4
                     /\ \A h \in 1..(n - 1) :
                            \/ file[h][1] = "#"
                            \/ /\ Len(Split(file[h], " ")) >= 4
                               /\ ParseI64(Split(file[h], " ")[2]).ok}
    IN IF short = {} THEN 0 ELSE CHOOSE n \in short : TRUE

\* C28: the mutations read_mutations_from_file returns are those of the data
\* lines, each at position pos - 1, which is no wrap-around of a negative
\* number; a data line of fewer than 4 fields gives a ParseError with the
\* number of the line
C28_PositionIsPosMinusOne ==
    /\ (ReadObserved /\ read_back.state = "Ok")
       => /\ Len(read_back.value) = Len(DataLines)
          /\ \A i \in 1..Len(DataLines) :
                /\ PosOf(DataLines[i]) - 1 >= 0
                /\ read_back.value[i].position = UsizeOf(PosOf(DataLines[i]) - 1)
    /\ (ReadObserved /\ FirstShortLine > 0)
       => /\ read_back.state = "Err"
          /\ read_back.line_number = Some(FirstShortLine)

\* the same of the files whose positions are all 1 or more
C28_PositivePositions ==
    (ReadObserved /\ read_back.state = "Ok"
        /\ \A i \in 1..Len(DataLines) : PosOf(DataLines[i]) >= 1)
    => /\ Len(read_back.value) = Len(DataLines)
       /\ \A i \in 1..Len(DataLines) :
             read_back.value[i].position = UsizeOf(PosOf(DataLines[i]) - 1)
\* pos 0 read as the largest usize
C28_WitnessWrapped ==
    /\ ReadObserved /\ read_back.state = "Ok"
    /\ Len(read_back.value) = 2
    /\ read_back.value[1].position = UsizeOf(4)
    /\ read_back.value[2].position = <<65535, 65535, 65535, 65535>>

C28_ShortLineIsNamed ==
    (ReadObserved /\ FirstShortLine > 0)
    => /\ read_back.state = "Err"
       /\ read_back.line_number = Some(FirstShortLine)
C28_WitnessShortLine ==
    /\ ReadObserved /\ FirstShortLine = 3
    /\ read_back = BadFormat(3)


(***************************************************************************)
(* Claims about a run whose --action names no step.                        *)
(***************************************************************************)
NoSuchAction == action \notin ActionSet \cup {None}

\* C29: a run whose --action is none of the six steps, whatever file flags
\* are given and every input of its format, has when it is over written no
\* artifact and ended with the error "Invalid --action parameter"
C29_InvalidActionWritesNothing ==
    (main_pc = "exited" /\ NoSuchAction /\ WellFormed)
    => /\ artifacts_written = <<>>
       /\ exit = "Err"
       /\ error = "Invalid --action parameter"

\* what holds of every such run: no step is called, nothing is written and
\* it ends with an error, which with sound inputs is that of the action
C29_NothingWritten ==
    (main_pc = "exited" /\ NoSuchAction)
    => /\ steps_run = <<>>
       /\ artifacts_written = <<>>
       /\ exit = "Err"
       /\ condition = "sound" => error = "Invalid --action parameter"
C29_Witness ==
    /\ main_pc = "exited" /\ NoSuchAction
    /\ flags = FileFlags
    /\ condition = "sound"
    /\ error = "Invalid --action parameter"
C29_WitnessOtherError ==
    /\ main_pc = "exited" /\ NoSuchAction
    /\ condition = "sampled_class_absent"
    /\ exit = "Err" /\ error # "Invalid --action parameter"


(***************************************************************************)
(* Claims about the region filter of the comparator.                       *)
(***************************************************************************)
\* C30: with a region filter id, every row compare_mutations returns is a
\* row of the region id, also when the expected counts and the sampled
\* distributions hold other regions
C30_RowsOfFilteredRegion ==
    (compare_pc = "returned" /\ compared.state = "Ok" /\ filter_for_id # None)
    => \A i \in 1..Len(compared.rows) : compared.rows[i].region = filter_for_id

\* the same of the observed counts: a row of another region counts nothing
C30_OtherRegionsCountNothing ==
    (compare_pc = "returned" /\ compared.state = "Ok" /\ filter_for_id # None)
    => \A i \in 1..Len(compared.rows) :
           compared.rows[i].region # filter_for_id => compared.rows[i].observed = 0
C30_WitnessOtherRegion ==
    /\ compare_pc = "returned" /\ compared.state = "Ok"
    /\ filter_for_id = "r1"
    /\ \E i \in 1..Len(compared.rows) : compared.rows[i].region = "r2"
    /\ \E i \in 1..Len(classified_observed_mutations) :
           classified_observed_mutations[i].region_name = "r2"

=============================================================================
